---- MODULE Spec2Model ----
(***************************************************************************)
(* Vtalk: the global-hotkey recording state machine of the main process,   *)
(* the renderer's capture hook (useRecorder), and the transcription job    *)
(* (ipcMain 'transcribe-audio' with the renderer's handleTranscription),    *)
(* the transcripts table (db.ts) and the paste handler (ipcMain            *)
(* 'paste-text').                                                          *)
(***************************************************************************)
EXTENDS Integers, Sequences, FiniteSets, TLC

(* ------------------------------ bounds -------------------------------- *)
\* the wall clock advances in steps of TickMs up to MaxTime
TickMs == 100
MaxTime == 500
\* number of 'recording-status' messages the main process may send
MaxMsgs == 4
\* number of transcription jobs (handleTranscription calls)
MaxJobs == 2
\* number of jobs a retry may add when MaxJobs jobs have been submitted
MaxRetries == 1
\* number of 'window-shown' reloads that may be pending at once
MaxLoads == 1
\* number of 'paste-text' messages
MaxPastes == 2
\* length of the texts handed to saveTranscript directly
MaxLen == 3
\* number of direct saveTranscript calls
MaxRows == 2
\* number of direct calls of startRecording / stopRecording
MaxCalls == 3
\* number of clipboard writes made outside the program
MaxExternal == 1
\* rows of the transcripts table kept from earlier runs
MaxStored == 52
\* clicks on a delete button
MaxDeletes == 1

(* ------------------------- program constants -------------------------- *)
\* holdDuration < 300 is a short press
ShortPressMs == 300

\* key names delivered by the global listener; "" is an event with no name
Keys == {"LEFT CTRL", "RIGHT CTRL", "LEFT ALT", "RIGHT ALT", "SPACE", "A"}
KeyNames == Keys \cup {""}
KeyStates == {"DOWN", "UP"}
\* the keys the listener's conditions read, one of each kind
HotKeys == {"LEFT CTRL", "LEFT ALT", "SPACE"}

\* recordings shorter than 0.5 s are ignored; durations are in tenths of a second
MinDuration == 5
Durations == {3, 5}
\* placeholder ids are Date.now() values, far above the row ids of the table
TempIdBase == 1000
\* texts are sequences of characters; " " is white space
WhisperTexts == {<<"a">>, <<" ", "a">>}
RewriteContents == {<<"b", " ">>, <<" ">>}
SettingValues == {"true", "false"}
\* getSetting returns null for a key that has no row
Null == "NULL"
\* the styles the settings page offers
Styles == {"natural", "professional", "casual", "concise"}
\* values cleanup_style may hold: no row, a style, or any other string
StyleValues == Styles \cup {Null, "other"}
\* values cleanup_custom_prompt may hold: no row, empty, or an instruction
PromptValues == {Null, "", "be brief"}
\* the characters of a text: a letter and a white space
Chars == {"a", " "}
\* durations handed to saveTranscript directly, in tenths of a second
SaveDurations == {0, 5, 600}
\* process.platform
Platforms == {"win32", "darwin", "linux"}
\* texts a caller may hand to pasteText
PasteTexts == {<<"a">>, <<"b">>}

VARIABLES
  \* ---- main process (hotkey) ----
  isRecording,          \* let isRecording
  isContinuous,         \* let isContinuous
  currentHotkey,        \* let currentHotkey: the keys currently held
  lastHotkeyPressTime,  \* let lastHotkeyPressTime
  now,                  \* Date.now()
  mainStatus,           \* 'recording-status' messages sent to mainWindow, in order
  overlayStatus,        \* last 'recording-status' pushed to the overlay ("none" at start)
  overlayVisible,       \* overlayWindow shown / hidden
  lastEvent,            \* the last key event: has e.name, e.state, and a toggle bit;
                        \*   and for each key whether its latest event was DOWN
  modeLog,              \* the listener's last console.log about the recording mode
  lastCall,             \* the last direct call of startRecording / stopRecording:
                        \*   which one, whether it found the session closed, and
                        \*   the number of calls so far
  \* ---- renderer capture hook (useRecorder) ----
  rendererPos,          \* number of mainStatus messages the renderer has handled
  pendingAcq,           \* start() calls awaiting getUserMedia
  recorders,            \* MediaRecorder objects created so far: their state
  mediaRecorder,        \* mediaRecorder.current: index into recorders, 0 = null
  rendererIsRecording,  \* useState isRecording of the hook
  acqFailures,          \* getUserMedia rejections caught by start()
  startTime,            \* startTime.current of the hook
  streamRef,            \* streamRef.current: the recorder whose stream it is, 0 = null
  finished,             \* 'recording-finished' events dispatched: their recorder
  \* ---- settings table and the transcription jobs ----
  settings,             \* settings table: the value stored for each key
  recordingsDir,        \* the directory userData/recordings exists
  audioFiles,           \* the archive files that exist on disk: their paths
  atomResponse,         \* the last atom:// request and the response to it
  apiKey,               \* an OpenAI key is stored or in the environment
  db,                   \* transcripts table, in insertion order
  dbSeq,                \* AUTOINCREMENT counter of the table
  jobs,                 \* per job: the 'transcribe-audio' handler and handleTranscription
  nJobs,                \* handleTranscription calls so far
  nCaptures,            \* 'recording-finished' events so far
  lastAudio,            \* useState lastAudio (capture and duration), 0 = null
  isTranscribing,       \* useState isTranscribing
  transcripts,          \* useState transcripts: the list shown
  stats,                \* useState stats
  pendingLoads,         \* initialLoad calls awaiting their getTranscripts reply
  paging,               \* useState offset, hasMore and loadingMore, and the
                        \*   reply of the loadMore call under way
  deletes,              \* deleteTranscript calls: their id and how far they are
  \* ---- main process (paste) ----
  platform,             \* process.platform
  clipboard,            \* the system clipboard
  pasteQueue,           \* 'paste-text' messages sent and not yet handled
  pastes,               \* per 'paste-text' message handled: its exec and timers
  overlayLog,           \* every status pushed to the overlay, in order
  externalWrites        \* clipboard writes made outside the program

hotkeyVars == <<isRecording, isContinuous, currentHotkey, lastHotkeyPressTime,
                now, mainStatus, overlayStatus, overlayVisible, lastEvent,
                modeLog, lastCall>>
recorderVars == <<rendererPos, pendingAcq, recorders, mediaRecorder,
                  rendererIsRecording, acqFailures, startTime, streamRef,
                  finished>>
jobVars == <<settings, apiKey, recordingsDir, audioFiles, atomResponse, stats, db, dbSeq, jobs, nJobs, nCaptures, lastAudio,
             isTranscribing, transcripts, pendingLoads, paging, deletes>>
pasteVars == <<platform, clipboard, pasteQueue, pastes, externalWrites>>
vars == <<hotkeyVars, recorderVars, jobVars, pasteVars, overlayLog>>

(* ------------------------------ settings ------------------------------ *)
\* the rows of the settings table the pipeline reads
Settings(saveAudio, cleanupEnabled, cleanupStyle, cleanupCustomPrompt) ==
  [ save_audio |-> saveAudio, cleanup_enabled |-> cleanupEnabled,
    cleanup_style |-> cleanupStyle,
    cleanup_custom_prompt |-> cleanupCustomPrompt ]

\* the values the settings page may store under a key
ValuesOf(key) ==
  CASE key = "cleanup_style" -> Styles
    [] key = "cleanup_custom_prompt" -> PromptValues \ {Null}
    [] OTHER -> SettingValues

(* --------------------------- derived booleans -------------------------- *)
isCtrlIn(hk) == "LEFT CTRL" \in hk \/ "RIGHT CTRL" \in hk
isAltIn(hk) == "LEFT ALT" \in hk \/ "RIGHT ALT" \in hk
isSpaceIn(hk) == "SPACE" \in hk

\* a key set update whose UP filter keeps the released key instead of
\* dropping it
UpdateHotkey_FilterKeeps(hk, name, state) ==
  IF state = "DOWN" THEN hk \cup {name} ELSE hk \cap {name}

\* the key set after the listener's update for event (name, state)
UpdateHotkey(hk, name, state) ==
  IF state = "DOWN" THEN hk \cup {name} ELSE hk \ {name}

\* the hotkey state of the specification, read off the two flags
HotkeyState ==
  IF ~isRecording THEN "Idle"
  ELSE IF isContinuous THEN "ContinuousActive" ELSE "HoldActive"

(* --------------------------- start / stop ------------------------------ *)
\* startRecording that forgets to set the flag
startRecording_NoFlag ==
  IF isRecording
  THEN UNCHANGED <<isRecording, mainStatus, overlayStatus, overlayVisible,
                   overlayLog>>
  ELSE /\ UNCHANGED isRecording
       /\ mainStatus' = Append(mainStatus, TRUE)
       /\ overlayVisible' = TRUE
       /\ overlayStatus' = "recording"
       /\ overlayLog' = Append(overlayLog, "recording")

startRecording ==
  IF isRecording
  THEN UNCHANGED <<isRecording, mainStatus, overlayStatus, overlayVisible,
                   overlayLog>>
  ELSE /\ isRecording' = TRUE
       /\ mainStatus' = Append(mainStatus, TRUE)
       /\ overlayVisible' = TRUE
       /\ overlayStatus' = "recording"
       /\ overlayLog' = Append(overlayLog, "recording")

\* stopRecording without its guard
stopRecording_NoGuard ==
  /\ isRecording' = FALSE
  /\ mainStatus' = Append(mainStatus, FALSE)
  /\ overlayStatus' = "processing"
  /\ overlayLog' = Append(overlayLog, "processing")
  /\ UNCHANGED overlayVisible

stopRecording ==
  IF ~isRecording
  THEN UNCHANGED <<isRecording, mainStatus, overlayStatus, overlayVisible,
                   overlayLog>>
  ELSE /\ isRecording' = FALSE
       /\ mainStatus' = Append(mainStatus, FALSE)
       /\ overlayStatus' = "processing"
       /\ overlayLog' = Append(overlayLog, "processing")
       /\ UNCHANGED overlayVisible

\* a call of startRecording()
StartRecording ==
  /\ Len(mainStatus) < MaxMsgs
  /\ lastCall.n < MaxCalls
  /\ startRecording
  /\ lastCall' = [op |-> "start", idle |-> ~isRecording, n |-> lastCall.n + 1]
  /\ UNCHANGED <<isContinuous, currentHotkey, lastHotkeyPressTime, now,
                 lastEvent, modeLog>>
  /\ UNCHANGED <<recorderVars, jobVars, pasteVars>>

\* a call of stopRecording()
StopRecording ==
  /\ Len(mainStatus) < MaxMsgs
  /\ lastCall.n < MaxCalls
  /\ stopRecording
  /\ lastCall' = [op |-> "stop", idle |-> ~isRecording, n |-> lastCall.n + 1]
  /\ UNCHANGED <<isContinuous, currentHotkey, lastHotkeyPressTime, now,
                 lastEvent, modeLog>>
  /\ UNCHANGED <<recorderVars, jobVars, pasteVars>>

NoRecordingChange ==
  UNCHANGED <<isRecording, mainStatus, overlayStatus, overlayVisible, overlayLog>>

(* -------------------------- keyboard listener -------------------------- *)
\* DOWN branch that starts on ctrl OR alt
DownBranch_StartOr(hk) ==
  IF isRecording
  THEN IF isContinuous
       THEN IF isCtrlIn(hk) /\ isAltIn(hk) /\ ~isSpaceIn(hk) THEN "stop" ELSE "none"
       ELSE IF isSpaceIn(hk) /\ isCtrlIn(hk) /\ isAltIn(hk) THEN "upgrade" ELSE "none"
  ELSE IF isCtrlIn(hk) \/ isAltIn(hk) THEN "start" ELSE "none"

\* DOWN branch whose continuous stop ignores SPACE
DownBranch_StopWithSpace(hk) ==
  IF isRecording
  THEN IF isContinuous
       THEN IF isCtrlIn(hk) /\ isAltIn(hk) THEN "stop" ELSE "none"
       ELSE IF isSpaceIn(hk) /\ isCtrlIn(hk) /\ isAltIn(hk) THEN "upgrade" ELSE "none"
  ELSE IF isCtrlIn(hk) /\ isAltIn(hk) THEN "start" ELSE "none"

\* DOWN branch that restarts instead of upgrading in place
DownBranch_UpgradeStops(hk) ==
  IF isRecording
  THEN IF isContinuous
       THEN IF isCtrlIn(hk) /\ isAltIn(hk) /\ ~isSpaceIn(hk) THEN "stop" ELSE "none"
       ELSE IF isSpaceIn(hk) /\ isCtrlIn(hk) /\ isAltIn(hk) THEN "stop" ELSE "none"
  ELSE IF isCtrlIn(hk) /\ isAltIn(hk) THEN "start" ELSE "none"

\* the branch the listener takes for an event that leaves key set hk
DownBranch(hk) ==
  IF isRecording
  THEN IF isContinuous
       THEN IF isCtrlIn(hk) /\ isAltIn(hk) /\ ~isSpaceIn(hk) THEN "stop" ELSE "none"
       ELSE IF isSpaceIn(hk) /\ isCtrlIn(hk) /\ isAltIn(hk) THEN "upgrade" ELSE "none"
  ELSE IF isCtrlIn(hk) /\ isAltIn(hk) THEN "start" ELSE "none"

\* UP branch with an inclusive short-press threshold
UpBranch_Inclusive(hk) ==
  IF isRecording /\ ~isContinuous /\ (~isCtrlIn(hk) \/ ~isAltIn(hk))
  THEN IF now - lastHotkeyPressTime <= ShortPressMs THEN "tap" ELSE "stop"
  ELSE "none"

\* UP branch that does not look at isContinuous
UpBranch_AnyMode(hk) ==
  IF isRecording /\ (~isCtrlIn(hk) \/ ~isAltIn(hk))
  THEN IF now - lastHotkeyPressTime < ShortPressMs THEN "tap" ELSE "stop"
  ELSE "none"

\* UP branch that waits until ctrl and alt are both released
UpBranch_BothReleased(hk) ==
  IF isRecording /\ ~isContinuous /\ (~isCtrlIn(hk) /\ ~isAltIn(hk))
  THEN IF now - lastHotkeyPressTime < ShortPressMs THEN "tap" ELSE "stop"
  ELSE "none"

UpBranch(hk) ==
  IF isRecording /\ ~isContinuous /\ (~isCtrlIn(hk) \/ ~isAltIn(hk))
  THEN IF now - lastHotkeyPressTime < ShortPressMs THEN "tap" ELSE "stop"
  ELSE "none"

ListenerBranch(hk, state) ==
  IF state = "DOWN" THEN DownBranch(hk) ELSE UpBranch(hk)

KeyboardListener(name, state) ==
  /\ Len(mainStatus) < MaxMsgs
  /\ IF name = ""
     THEN /\ lastEvent' = [named |-> name # "", state |-> state,
                          seq |-> 1 - lastEvent.seq,
                          down |-> lastEvent.down]
          /\ UNCHANGED <<isRecording, isContinuous, currentHotkey,
                         lastHotkeyPressTime, mainStatus, overlayStatus,
                         overlayVisible, overlayLog, modeLog>>
     ELSE LET hk == UpdateHotkey(currentHotkey, name, state)
              br == ListenerBranch(hk, state)
          IN /\ currentHotkey' = hk
             /\ lastEvent' = [named |-> name # "", state |-> state,
                          seq |-> 1 - lastEvent.seq,
                          down |-> [lastEvent.down EXCEPT
                                      ![name] = (state = "DOWN")]]
             /\ CASE br = "start" ->
                       /\ lastHotkeyPressTime' = now
                       /\ isContinuous' = isSpaceIn(hk)
                       /\ startRecording
                       /\ modeLog' = IF isSpaceIn(hk) THEN "started Continuous"
                                                     ELSE "started Hold"
                  [] br = "upgrade" ->
                       /\ isContinuous' = TRUE
                       /\ modeLog' = "upgraded"
                       /\ NoRecordingChange
                       /\ UNCHANGED lastHotkeyPressTime
                  [] br = "tap" ->
                       /\ isContinuous' = TRUE
                       /\ modeLog' = "short press"
                       /\ NoRecordingChange
                       /\ UNCHANGED lastHotkeyPressTime
                  [] br = "stop" ->
                       /\ stopRecording
                       /\ UNCHANGED <<isContinuous, lastHotkeyPressTime, modeLog>>
                  [] OTHER ->
                       /\ NoRecordingChange
                       /\ UNCHANGED <<isContinuous, lastHotkeyPressTime, modeLog>>
  /\ UNCHANGED <<now, lastCall>>
  /\ UNCHANGED recorderVars
  /\ UNCHANGED jobVars
  /\ UNCHANGED pasteVars

KeyEvent == \E name \in KeyNames, state \in KeyStates : KeyboardListener(name, state)

\* the events of the keys the recording depends on
HotkeyEvent == \E name \in HotKeys, state \in KeyStates : KeyboardListener(name, state)

\* the wall clock advances between events
Tick ==
  /\ now + TickMs <= MaxTime
  /\ now' = now + TickMs
  /\ UNCHANGED <<isRecording, isContinuous, currentHotkey, lastHotkeyPressTime,
                 mainStatus, overlayStatus, overlayVisible, lastEvent, modeLog,
                 overlayLog, lastCall>>
  /\ UNCHANGED recorderVars
  /\ UNCHANGED jobVars
  /\ UNCHANGED pasteVars

(* ------------------------ renderer: useRecorder ------------------------ *)
\* start(): the part up to the await of getUserMedia
start ==
  /\ pendingAcq' = pendingAcq + 1
  /\ UNCHANGED <<recorders, mediaRecorder, rendererIsRecording, acqFailures,
                 startTime, streamRef>>

\* stop(): only a recorder in state 'recording' is stopped; its 'stop' event
\* is delivered later
stop ==
  /\ IF mediaRecorder # 0 /\ recorders[mediaRecorder] = "recording"
     THEN /\ recorders' = [recorders EXCEPT ![mediaRecorder] = "inactive"]
          /\ rendererIsRecording' = FALSE
     ELSE UNCHANGED <<recorders, rendererIsRecording>>
  /\ UNCHANGED <<pendingAcq, mediaRecorder, acqFailures, startTime, streamRef>>

\* the onRecordingStatus callback handles the next message of the main window
OnRecordingStatus ==
  /\ rendererPos < Len(mainStatus)
  /\ rendererPos' = rendererPos + 1
  /\ IF mainStatus[rendererPos + 1] THEN start ELSE stop
  /\ UNCHANGED finished
  /\ UNCHANGED hotkeyVars
  /\ UNCHANGED jobVars
  /\ UNCHANGED <<pasteVars, overlayLog>>

\* getUserMedia resolves: the rest of start()'s try block
GetUserMediaResolve ==
  /\ pendingAcq > 0
  /\ pendingAcq' = pendingAcq - 1
  /\ recorders' = Append(recorders, "recording")
  /\ mediaRecorder' = Len(recorders) + 1
  /\ rendererIsRecording' = TRUE
  /\ startTime' = now
  /\ streamRef' = Len(recorders) + 1
  /\ UNCHANGED <<rendererPos, acqFailures, finished>>
  /\ UNCHANGED hotkeyVars
  /\ UNCHANGED jobVars
  /\ UNCHANGED <<pasteVars, overlayLog>>

\* getUserMedia rejects: start()'s catch block only logs
GetUserMediaReject ==
  /\ pendingAcq > 0
  /\ pendingAcq' = pendingAcq - 1
  /\ acqFailures' = acqFailures + 1
  /\ UNCHANGED <<rendererPos, recorders, mediaRecorder, rendererIsRecording,
                 startTime, streamRef, finished>>
  /\ UNCHANGED hotkeyVars
  /\ UNCHANGED jobVars
  /\ UNCHANGED <<pasteVars, overlayLog>>

(* ------------------------------- texts -------------------------------- *)

RECURSIVE TrimStart(_)
TrimStart(t) == IF t # <<>> /\ Head(t) = " " THEN TrimStart(Tail(t)) ELSE t

RECURSIVE TrimEnd(_)
TrimEnd(t) ==
  IF t # <<>> /\ t[Len(t)] = " " THEN TrimEnd(SubSeq(t, 1, Len(t) - 1)) ELSE t

\* String.prototype.trim
Trim(t) == TrimEnd(TrimStart(t))

\* String.prototype.split(/\s+/).length: one piece more than there are
\* maximal runs of white space (the empty string gives one empty piece)
SplitLength(t) ==
  1 + Cardinality({i \in 1..Len(t) :
                     t[i] = " " /\ (i = 1 \/ t[i - 1] # " ")})

(* ------------------------------- db.ts --------------------------------- *)
\* saveTranscript: const words
SavedWords(text) == SplitLength(Trim(text))

\* getStats: the words a row adds to totalWords
StatsWords(text) == IF Trim(text) # <<>> THEN SplitLength(Trim(text)) ELSE 0

\* saveTranscript: wpm = words / (duration / 60) as the fraction num / den,
\* the duration being in tenths of a second
SavedWpm(text, duration) ==
  IF duration > 0 THEN [num |-> SavedWords(text) * 600, den |-> duration]
                  ELSE [num |-> 0, den |-> 1]

\* saveTranscript: the row inserted and returned
saveTranscript(text, duration, audioPath) ==
  [ id |-> dbSeq + 1, text |-> text, duration |-> duration,
    wpm |-> SavedWpm(text, duration), audio_path |-> audioPath ]

\* SUM(duration) and the words counted over rows lo..hi of the table
RECURSIVE SumOver(_, _, _)
SumOver(rows, lo, hi) ==
  IF lo > hi THEN [totalDuration |-> 0, totalWords |-> 0]
  ELSE IF lo = hi
       THEN [ totalDuration |-> rows[lo].duration,
              totalWords |-> StatsWords(rows[lo].text) ]
       ELSE LET mid == (lo + hi) \div 2
                a == SumOver(rows, lo, mid)
                b == SumOver(rows, mid + 1, hi)
            IN [ totalDuration |-> a.totalDuration + b.totalDuration,
                 totalWords |-> a.totalWords + b.totalWords ]

\* getStats: the count, the total duration and the total words of the table
getStats ==
  LET sum == SumOver(db, 1, Len(db))
  IN [ count |-> Len(db), totalDuration |-> sum.totalDuration,
       totalWords |-> sum.totalWords ]

\* the stats a fresh window shows
NoStats == [count |-> 0, totalDuration |-> 0, totalWords |-> 0]

\* ipcMain.handle('save-transcript') called with any text and duration
SaveTranscriptCall(text, duration) ==
  /\ dbSeq < MaxRows
  /\ dbSeq' = dbSeq + 1
  /\ db' = Append(db, saveTranscript(text, duration, 0))
  /\ UNCHANGED <<settings, apiKey, recordingsDir, audioFiles, atomResponse, stats, jobs, nJobs, nCaptures, lastAudio,
                 isTranscribing, transcripts, pendingLoads, paging, deletes>>
  /\ UNCHANGED <<hotkeyVars, recorderVars, pasteVars, overlayLog>>

(* ---------------------- main: 'transcribe-audio' ----------------------- *)
Jobs == 1..(MaxJobs + MaxRetries)
TempId(j) == TempIdBase + j
\* the archive file of job j (recording_<timestamp>.mp3); 0 is null
PermanentFile(j) == j

NoRequest == [style |-> Null, customPrompt |-> Null, model |-> Null,
              system |-> <<>>]
NoConfig == [enabled |-> Null, style |-> Null, customPrompt |-> Null]

\* path.join(app.getPath('temp'), `vtalk_${Date.now()}.webm`) and
\* path.join(recordingsDir, `recording_${timestamp}.mp3`), for the clock value
\* t read by Date.now(); NoPath when the handler has not built the path
TempPath(t) == <<"temp", "vtalk_", t, ".webm">>
ArchivePath(t) == <<"userData", "recordings", "recording_", t, ".mp3">>
NoPath == <<>>

NoJob ==
  [ n |-> 0,                    \* the job's number
    rphase |-> "none",          \* handleTranscription: none, invoked, saving,
                                \*   savedReply, stats, done, failed
    mphase |-> "none",          \* handler: none, awaitAll, awaitTranscription,
                                \*   awaitRewrite, settled, replied
    outcome |-> "none",         \* the invoke: none, resolved, rejected
    transcription |-> "none",   \* transcriptionPromise: none, pending, ok, failed
    conversion |-> "none",      \* conversionPromise: none, pending, ok, failed
    rewrite |-> "none",         \* chat completion: none, pending, ok, failed
    issued |-> <<>>,            \* the requests the handler started, in order
    request |-> NoRequest,      \* the chat completion request
    cleanupAtStart |-> NoConfig, \* the cleanup rows when the handler started
    archiveFile |-> "none",     \* recording_<timestamp>.mp3: none, writing,
                                \*   written, partial
    shouldSaveAudio |-> FALSE,
    refining |-> FALSE,         \* 'refining' was pushed to the overlay
    respText |-> <<>>,          \* response.text of the transcription
    whisperText |-> <<>>,
    text |-> <<>>,              \* text of the resolved result
    audioPath |-> 0,            \* audioPath of the resolved result
    tempFile |-> FALSE,         \* the temporary .webm file exists
    tempPath |-> NoPath,        \* const tempFile: the path of that file
    permanentPath |-> NoPath,   \* const permanentFile: the path of the archive
    capturedGuard |-> FALSE,    \* isTranscribing as seen by the job's initialLoad
    timer |-> "none",           \* the 500 ms sync timer: none, armed, fired
    capture |-> 0,
    duration |-> 0,
    savedId |-> 0,              \* id returned by saveTranscript, 0 = not saved
    pasteCalls |-> 0 ]          \* pasteText calls of the job

NoAudio == [capture |-> 0, duration |-> 0]

\* cleanupTranscription: the style and the custom prompt it works with
\* (x || d gives d for null and for the empty string)
StyleOf(stored) == IF stored = Null \/ stored = "" THEN "natural" ELSE stored
CustomPromptOf(stored) == IF stored = Null THEN "" ELSE stored

\* cleanupTranscription: the instruction chosen by the style, by its opening
BaseInstruction(style) ==
  CASE style = "professional" -> "You are a professional assistant."
    [] style = "casual" -> "You are a friendly assistant."
    [] style = "concise" -> "You are a concise editor."
    [] OTHER -> "You are an expert editor."

\* what precedes the custom prompt in the system message
AdditionalPrefix == "\n\nAdditional instructions: "

\* cleanupTranscription: systemPrompt as the pieces it is concatenated from
SystemPrompt(style, customPrompt) ==
  <<BaseInstruction(style)>>
    \o (IF customPrompt # "" THEN <<AdditionalPrefix, customPrompt>> ELSE <<>>)

\* the models as the code's comments rank them
DefaultModel == "gpt-5-mini"
BestModel == "gpt-5.2"
FastestModel == "gpt-5-nano"

\* a cleanup that sends Natural to the fastest model too
Model_NaturalFastest(style) ==
  CASE style = "professional" \/ style = "casual" -> "gpt-5.2"
    [] OTHER -> "gpt-5-nano"

\* cleanupTranscription: let model
Model(style) ==
  CASE style = "professional" \/ style = "casual" -> "gpt-5.2"
    [] style = "concise" -> "gpt-5-nano"
    [] OTHER -> "gpt-5-mini"

\* cleanupTranscription's locals and the request it hands to
\* openai.chat.completions.create: the model and the system message
ChatRequest(stored) ==
  LET style == StyleOf(stored.cleanup_style)
      customPrompt == CustomPromptOf(stored.cleanup_custom_prompt)
  IN [ style |-> style, customPrompt |-> customPrompt,
       model |-> Model(style), system |-> SystemPrompt(style, customPrompt) ]

\* the cleanup rows of the settings table
CleanupConfig(stored) ==
  [ enabled |-> stored.cleanup_enabled, style |-> stored.cleanup_style,
    customPrompt |-> stored.cleanup_custom_prompt ]

\* a cleanup whose catch block drops the text
CleanupResult_NoFallback(ok, content, text) ==
  IF ok THEN Trim(content) ELSE <<>>

\* cleanupTranscription's result once the chat completion has settled
CleanupResult(ok, content, text) ==
  IF ok THEN Trim(content) ELSE text

\* a handler that starts the rewrite without telling the overlay
HandlerContinue_SilentRewrite(jb, whisper, path) ==
  LET base == [jb EXCEPT !.whisperText = whisper, !.audioPath = path,
                         !.tempFile = FALSE]
  IN IF settings.cleanup_enabled = "true"
     THEN [base EXCEPT !.rewrite = "pending",
                       !.request = ChatRequest(settings),
                       !.issued = Append(jb.issued, "rewrite"),
                       !.mphase = "awaitRewrite"]
     ELSE [base EXCEPT !.text = whisper, !.mphase = "settled",
                       !.outcome = "resolved"]

\* the handler after its awaits succeeded: unlink, then the cleanup step
HandlerContinue(jb, whisper, path) ==
  LET base == [jb EXCEPT !.whisperText = whisper, !.audioPath = path,
                         !.tempFile = FALSE]
  IN IF settings.cleanup_enabled = "true"
     THEN [base EXCEPT !.refining = TRUE, !.rewrite = "pending",
                       !.request = ChatRequest(settings),
                       !.issued = Append(jb.issued, "rewrite"),
                       !.mphase = "awaitRewrite"]
     ELSE [base EXCEPT !.text = whisper, !.mphase = "settled",
                       !.outcome = "resolved"]

\* the handler's catch block: notification, rethrow
HandlerThrow(jb) == [jb EXCEPT !.mphase = "settled", !.outcome = "rejected"]

\* the handler when one of the promises it awaits has settled
HandlerResume(jb) ==
  CASE jb.mphase = "awaitAll" ->
         IF jb.transcription = "failed" \/ jb.conversion = "failed"
         THEN HandlerThrow(jb)
         ELSE IF jb.transcription = "ok" /\ jb.conversion = "ok"
              THEN HandlerContinue(jb, jb.respText, PermanentFile(jb.n))
              ELSE jb
    [] jb.mphase = "awaitTranscription" ->
         IF jb.transcription = "failed" THEN HandlerThrow(jb)
         ELSE IF jb.transcription = "ok"
              THEN HandlerContinue(jb, jb.respText, 0)
              ELSE jb
    [] OTHER -> jb

JobFrame ==
  /\ UNCHANGED <<isRecording, isContinuous, currentHotkey, lastHotkeyPressTime,
                 now, mainStatus, lastEvent, modeLog, lastCall>>
  /\ UNCHANGED recorderVars
  /\ UNCHANGED <<platform, clipboard, pastes, externalWrites>>

\* a handler that archives whatever save_audio says
HandlerStart_AlwaysTranscode(jb) ==
  IF ~apiKey
  THEN HandlerThrow([jb EXCEPT !.tempFile = TRUE, !.tempPath = TempPath(now)])
  ELSE [jb EXCEPT !.tempFile = TRUE, !.tempPath = TempPath(now),
                  !.transcription = "pending",
                  !.shouldSaveAudio = TRUE, !.conversion = "pending",
                  !.archiveFile = "writing",
                  !.permanentPath = ArchivePath(now),
                  !.issued = <<"transcription", "transcode">>,
                  !.mphase = "awaitAll"]

\* the handler up to its first await: the temporary file is written, the
\* key is looked up, the transcription request is created and, with
\* save_audio, the directory is ensured and ffmpeg is started
HandlerStart(jb) ==
  IF ~apiKey
  THEN HandlerThrow([jb EXCEPT !.tempFile = TRUE, !.tempPath = TempPath(now)])
  ELSE IF settings.save_audio = "true"
       THEN [jb EXCEPT !.tempFile = TRUE, !.tempPath = TempPath(now),
                       !.transcription = "pending",
                       !.shouldSaveAudio = TRUE, !.conversion = "pending",
                       !.archiveFile = "writing",
                       !.permanentPath = ArchivePath(now),
                       !.issued = <<"transcription", "transcode">>,
                       !.mphase = "awaitAll"]
       ELSE [jb EXCEPT !.tempFile = TRUE, !.tempPath = TempPath(now),
                       !.transcription = "pending",
                       !.issued = <<"transcription">>,
                       !.mphase = "awaitTranscription"]

\* the handler is entered for job j and runs to its first await, leaving
\* the job as jb
transcribeAudio(j, jb) ==
  /\ jobs[j].rphase = "invoked" /\ jobs[j].mphase = "none"
  /\ jobs' = [jobs EXCEPT ![j] = jb]
  /\ recordingsDir' = (recordingsDir \/ jb.shouldSaveAudio)
  /\ UNCHANGED <<settings, apiKey, audioFiles, atomResponse, stats, db, dbSeq, nJobs, nCaptures, lastAudio,
                 isTranscribing, transcripts, pendingLoads, paging, deletes>>
  /\ UNCHANGED <<overlayStatus, overlayVisible, overlayLog, pasteQueue>>
  /\ JobFrame

TranscribeAudio(j) == transcribeAudio(j, HandlerStart(jobs[j]))

\* the same step, with the cleanup rows of that moment kept for comparison
TranscribeAudioObserved(j) ==
  transcribeAudio(j, [HandlerStart(jobs[j]) EXCEPT
                        !.cleanupAtStart = CleanupConfig(settings)])

\* openai.audio.transcriptions.create settles
TranscriptionSettle(j, ok, t) ==
  /\ jobs[j].transcription = "pending"
  /\ LET jb == HandlerResume([jobs[j] EXCEPT
                   !.transcription = IF ok THEN "ok" ELSE "failed",
                   !.respText = IF ok THEN t ELSE <<>>])
     IN /\ jobs' = [jobs EXCEPT ![j] = jb]
        /\ overlayStatus' = IF jb.refining THEN "refining" ELSE overlayStatus
        /\ overlayLog' = IF jb.refining THEN Append(overlayLog, "refining")
                                        ELSE overlayLog
  /\ UNCHANGED <<settings, apiKey, recordingsDir, audioFiles, atomResponse, stats, db, dbSeq, nJobs, nCaptures, lastAudio,
                 isTranscribing, transcripts, pendingLoads, paging, deletes>>
  /\ UNCHANGED <<overlayVisible, pasteQueue>>
  /\ JobFrame

\* ffmpeg emits 'end' or 'error'
ConversionSettle(j, ok) ==
  /\ jobs[j].conversion = "pending"
  /\ LET jb == HandlerResume([jobs[j] EXCEPT
                   !.conversion = IF ok THEN "ok" ELSE "failed",
                   !.archiveFile = IF ok THEN "written" ELSE "partial"])
     IN /\ jobs' = [jobs EXCEPT ![j] = jb]
        /\ audioFiles' = IF ok THEN audioFiles \cup {PermanentFile(j)}
                             ELSE audioFiles
        /\ overlayStatus' = IF jb.refining THEN "refining" ELSE overlayStatus
        /\ overlayLog' = IF jb.refining THEN Append(overlayLog, "refining")
                                        ELSE overlayLog
  /\ UNCHANGED <<settings, apiKey, recordingsDir, atomResponse, stats, db, dbSeq, nJobs, nCaptures, lastAudio,
                 isTranscribing, transcripts, pendingLoads, paging, deletes>>
  /\ UNCHANGED <<overlayVisible, pasteQueue>>
  /\ JobFrame

\* openai.chat.completions.create settles: the rest of cleanupTranscription
\* and the handler's return
RewriteSettle(j, ok, content) ==
  /\ jobs[j].rewrite = "pending"
  /\ jobs' = [jobs EXCEPT ![j] =
       [@ EXCEPT !.rewrite = IF ok THEN "ok" ELSE "failed",
                 !.text = CleanupResult(ok, content, jobs[j].whisperText),
                 !.mphase = "settled", !.outcome = "resolved"]]
  /\ UNCHANGED <<settings, apiKey, recordingsDir, audioFiles, atomResponse, stats, db, dbSeq, nJobs, nCaptures, lastAudio,
                 isTranscribing, transcripts, pendingLoads, paging, deletes>>
  /\ UNCHANGED <<overlayStatus, overlayVisible, overlayLog, pasteQueue>>
  /\ JobFrame

\* ipcMain.handle('set-setting')
SetSetting(key, value) ==
  /\ settings[key] # value
  /\ settings' = [settings EXCEPT ![key] = value]
  /\ UNCHANGED <<apiKey, recordingsDir, audioFiles, atomResponse, stats, db, dbSeq, jobs, nJobs, nCaptures, lastAudio,
                 isTranscribing, transcripts, pendingLoads, paging, deletes>>
  /\ UNCHANGED <<overlayStatus, overlayVisible, overlayLog, pasteQueue>>
  /\ JobFrame

\* ipcMain.handle('save-transcript') for job j's saveTranscript call
SaveTranscript(j) ==
  /\ jobs[j].rphase = "saving"
  /\ dbSeq' = dbSeq + 1
  /\ db' = Append(db, saveTranscript(jobs[j].text, jobs[j].duration,
                                     jobs[j].audioPath))
  /\ jobs' = [jobs EXCEPT ![j] = [@ EXCEPT !.rphase = "savedReply",
                                           !.savedId = dbSeq + 1]]
  /\ UNCHANGED <<settings, apiKey, recordingsDir, audioFiles, atomResponse, stats, nJobs, nCaptures, lastAudio,
                 isTranscribing, transcripts, pendingLoads, paging, deletes>>
  /\ UNCHANGED <<overlayStatus, overlayVisible, overlayLog, pasteQueue>>
  /\ JobFrame

(* ------------------------ renderer: App.tsx ---------------------------- *)
Reverse(q) == [i \in 1..Len(q) |-> q[Len(q) + 1 - i]]

\* getTranscripts(limit, offset): ORDER BY created_at DESC LIMIT ? OFFSET ?
DefaultLimit == 50
getTranscripts(limit, offset) ==
  LET r == Reverse(db)
      last == IF Len(r) < offset + limit THEN Len(r) ELSE offset + limit
  IN  SubSeq(r, offset + 1, last)

\* const PAGE_SIZE and the first values of offset, hasMore and loadingMore;
\* reply is the data of the getTranscripts call of loadMore
PAGE_SIZE == 50
NoPaging == [offset |-> 0, hasMore |-> TRUE, loadingMore |-> FALSE,
             reply |-> <<>>]

\* rows as the list shows them
ListEntries(rows) ==
  [i \in 1..Len(rows) |-> [id |-> rows[i].id, status |-> "saved"]]

\* getTranscripts(PAGE_SIZE, 0) as the list shows it: newest first
Snapshot == ListEntries(getTranscripts(PAGE_SIZE, 0))

FilterOutId(q, id) ==
  LET Other(t) == t.id # id IN SelectSeq(q, Other)

\* an 'already there' test that only looks whether the list has entries
HasId_AnyEntry(q, id) == q # <<>>

HasId(q, id) == \E i \in 1..Len(q) : q[i].id = id

\* the catch block's map over the list
MarkError(q, id) ==
  [i \in 1..Len(q) |-> IF q[i].id = id THEN [q[i] EXCEPT !.status = "error"]
                                      ELSE q[i]]

\* handleTranscription up to the await of transcribeAudio
handleTranscription(c, dur) ==
  /\ nJobs + 1 \in Jobs
  /\ nJobs' = nJobs + 1
  /\ isTranscribing' = TRUE
  /\ transcripts' = <<[id |-> TempId(nJobs + 1), status |-> "transcribing"]>>
                      \o transcripts
  /\ jobs' = [jobs EXCEPT ![nJobs + 1] =
       [NoJob EXCEPT !.n = nJobs + 1,
                     !.rphase = "invoked", !.capturedGuard = isTranscribing,
                     !.capture = c, !.duration = dur]]

\* the 'recording-finished' listener for an event with this duration
\* handleFinished that remembers the capture before it checks the duration
handleFinished_RemembersShort(dur) ==
  /\ nCaptures < MaxJobs
  /\ nCaptures' = nCaptures + 1
  /\ IF dur < MinDuration
     THEN /\ lastAudio' = [capture |-> nCaptures + 1, duration |-> dur]
          /\ UNCHANGED <<nJobs, isTranscribing, transcripts, jobs>>
     ELSE /\ nJobs < MaxJobs
          /\ lastAudio' = [capture |-> nCaptures + 1, duration |-> dur]
          /\ handleTranscription(nCaptures + 1, dur)
  /\ UNCHANGED <<settings, apiKey, recordingsDir, audioFiles, atomResponse, stats, db, dbSeq, pendingLoads, paging, deletes>>

handleFinished(dur) ==
  /\ nCaptures < MaxJobs
  /\ nCaptures' = nCaptures + 1
  /\ IF dur < MinDuration
     THEN UNCHANGED <<lastAudio, nJobs, isTranscribing, transcripts, jobs>>
     ELSE /\ nJobs < MaxJobs
          /\ lastAudio' = [capture |-> nCaptures + 1, duration |-> dur]
          /\ handleTranscription(nCaptures + 1, dur)
  /\ UNCHANGED <<settings, apiKey, recordingsDir, audioFiles, atomResponse, stats, db, dbSeq, pendingLoads, paging, deletes>>

\* a 'recording-finished' event arrives from the capture hook
HandleFinished(dur) ==
  /\ handleFinished(dur)
  /\ UNCHANGED <<overlayStatus, overlayVisible, overlayLog, pasteQueue>>
  /\ JobFrame

\* (Date.now() - startTime.current) / 1000, in tenths of a second
CaptureDuration == (now - startTime) \div 100

\* a recorder's 'stop' event: onstop computes the duration, dispatches
\* 'recording-finished' to App's listener, and stops the tracks of
\* streamRef.current; a recorder whose tracks have all ended stops
RecorderOnStop(i) ==
  /\ i \in 1..Len(recorders)
  /\ recorders[i] = "inactive"
  /\ \A k \in 1..Len(finished) : finished[k].rec # i
  /\ finished' = Append(finished, [rec |-> i, duration |-> CaptureDuration])
  /\ handleFinished(CaptureDuration)
  /\ recorders' = IF streamRef # 0 /\ recorders[streamRef] = "recording"
                  THEN [recorders EXCEPT ![streamRef] = "inactive"]
                  ELSE recorders
  /\ streamRef' = 0
  /\ UNCHANGED <<rendererPos, pendingAcq, mediaRecorder, rendererIsRecording,
                 acqFailures, startTime>>
  /\ UNCHANGED hotkeyVars
  /\ UNCHANGED <<pasteVars, overlayLog>>

\* a retry button that resubmits the recording of the entry it belongs to
retryTranscription_OwnCapture ==
  /\ lastAudio # NoAudio
  /\ \E i \in 1..Len(transcripts) :
       /\ transcripts[i].status = "error"
       /\ LET jb == jobs[transcripts[i].id - TempIdBase]
          IN handleTranscription(jb.capture, jb.duration)
  /\ UNCHANGED <<settings, apiKey, recordingsDir, audioFiles, atomResponse, stats, db, dbSeq, nCaptures, lastAudio, pendingLoads, paging, deletes>>
  /\ UNCHANGED <<overlayStatus, overlayVisible, overlayLog, pasteQueue>>
  /\ JobFrame

\* the retry button of an entry with status 'error'
retryTranscription ==
  /\ \E i \in 1..Len(transcripts) : transcripts[i].status = "error"
  /\ lastAudio # NoAudio
  /\ handleTranscription(lastAudio.capture, lastAudio.duration)
  /\ UNCHANGED <<settings, apiKey, recordingsDir, audioFiles, atomResponse, stats, db, dbSeq, nCaptures, lastAudio, pendingLoads, paging, deletes>>
  /\ UNCHANGED <<overlayStatus, overlayVisible, overlayLog, pasteQueue>>
  /\ JobFrame

\* a retry among the first MaxJobs jobs
RetryTranscription == nJobs < MaxJobs /\ retryTranscription

\* the finally block: setIsTranscribing(false) and the 500 ms timer
Finally(jb) == [jb EXCEPT !.timer = "armed"]

\* transcribeAudio settles in the renderer: the try continues or the catch runs
TranscribeReply(j) ==
  /\ jobs[j].rphase = "invoked" /\ jobs[j].mphase = "settled"
  /\ IF jobs[j].outcome = "resolved"
     THEN /\ jobs' = [jobs EXCEPT ![j] = [@ EXCEPT !.mphase = "replied",
                                                   !.rphase = "saving"]]
          /\ UNCHANGED <<isTranscribing, transcripts, overlayVisible>>
     ELSE /\ jobs' = [jobs EXCEPT ![j] = Finally([@ EXCEPT !.mphase = "replied",
                                                           !.rphase = "failed"])]
          /\ overlayVisible' = FALSE
          /\ transcripts' = MarkError(transcripts, TempId(j))
          /\ isTranscribing' = FALSE
  /\ UNCHANGED <<settings, apiKey, recordingsDir, audioFiles, atomResponse, stats, db, dbSeq, nJobs, nCaptures, lastAudio,
                 pendingLoads, paging, deletes>>
  /\ UNCHANGED <<overlayStatus, overlayLog, pasteQueue>>
  /\ JobFrame

\* the catch block of handleTranscription: hideOverlay, the placeholder is
\* marked 'error'; then the finally block
CatchFinally(j) ==
  /\ jobs' = [jobs EXCEPT ![j] = Finally([@ EXCEPT !.rphase = "failed"])]
  /\ overlayVisible' = FALSE
  /\ transcripts' = MarkError(transcripts, TempId(j))
  /\ isTranscribing' = FALSE

\* the 'save-transcript' invoke rejects (the INSERT threw): catch, finally
SaveTranscriptRejects(j) ==
  /\ jobs[j].rphase = "saving"
  /\ CatchFinally(j)
  /\ UNCHANGED <<settings, apiKey, recordingsDir, audioFiles, atomResponse, stats, db, dbSeq, nJobs, nCaptures, lastAudio,
                 pendingLoads, paging, deletes>>
  /\ UNCHANGED <<overlayStatus, overlayLog, pasteQueue>>
  /\ JobFrame

\* the 'get-stats' invoke after the save rejects: catch, finally
GetStatsRejects(j) ==
  /\ jobs[j].rphase = "stats"
  /\ CatchFinally(j)
  /\ UNCHANGED <<settings, apiKey, recordingsDir, audioFiles, atomResponse, stats, db, dbSeq, nJobs, nCaptures, lastAudio,
                 pendingLoads, paging, deletes>>
  /\ UNCHANGED <<overlayStatus, overlayLog, pasteQueue>>
  /\ JobFrame

\* saveTranscript returned: the placeholder is replaced by the saved row
AfterSave(j) ==
  /\ jobs[j].rphase = "savedReply"
  /\ LET filtered == FilterOutId(transcripts, TempId(j))
     IN transcripts' = IF HasId(filtered, jobs[j].savedId) THEN filtered
                       ELSE <<[id |-> jobs[j].savedId, status |-> "saved"]>>
                              \o filtered
  /\ jobs' = [jobs EXCEPT ![j] = [@ EXCEPT !.rphase = "stats"]]
  /\ UNCHANGED <<settings, apiKey, recordingsDir, audioFiles, atomResponse, stats, db, dbSeq, nJobs, nCaptures, lastAudio,
                 isTranscribing, pendingLoads, paging, deletes>>
  /\ UNCHANGED <<overlayStatus, overlayVisible, overlayLog, pasteQueue>>
  /\ JobFrame

\* getStats returned: setStats, pasteText, finally
AfterStats(j) ==
  /\ jobs[j].rphase = "stats"
  /\ jobs' = [jobs EXCEPT ![j] = Finally([@ EXCEPT !.rphase = "done",
                                    !.pasteCalls = jobs[j].pasteCalls + 1])]
  /\ isTranscribing' = FALSE
  /\ pasteQueue' = Append(pasteQueue, jobs[j].text)
  /\ stats' = getStats
  /\ UNCHANGED <<settings, apiKey, recordingsDir, audioFiles, atomResponse, db, dbSeq, nJobs, nCaptures, lastAudio,
                 transcripts, pendingLoads, paging, deletes>>
  /\ UNCHANGED <<overlayStatus, overlayVisible, overlayLog>>
  /\ JobFrame

\* initialLoad as created by a render that saw isTranscribing = guard:
\* the request is answered with the table as it is now
initialLoad(guard) ==
  pendingLoads' = IF guard THEN pendingLoads
                  ELSE Append(pendingLoads,
                              [data |-> Snapshot, statsData |-> getStats])

\* the job's 500 ms timer fires: initialLoad of the render the job started in
DelayedSync(j) ==
  /\ jobs[j].timer = "armed"
  /\ jobs' = [jobs EXCEPT ![j] = [@ EXCEPT !.timer = "fired"]]
  /\ initialLoad(jobs[j].capturedGuard)
  /\ UNCHANGED <<settings, apiKey, recordingsDir, audioFiles, atomResponse, stats, db, dbSeq, nJobs, nCaptures, lastAudio,
                 isTranscribing, transcripts, paging, deletes>>
  /\ UNCHANGED <<overlayStatus, overlayVisible, overlayLog, pasteQueue>>
  /\ JobFrame

\* 'window-shown': initialLoad of the first render (isTranscribing = false)
OnWindowShown ==
  /\ Len(pendingLoads) < MaxLoads
  /\ initialLoad(FALSE)
  /\ UNCHANGED <<settings, apiKey, recordingsDir, audioFiles, atomResponse, stats, db, dbSeq, jobs, nJobs, nCaptures, lastAudio,
                 isTranscribing, transcripts, paging, deletes>>
  /\ UNCHANGED <<overlayStatus, overlayVisible, overlayLog, pasteQueue>>
  /\ JobFrame

\* initialLoad after its await: the list and the stats are replaced by the
\* replies
InitialLoadApply ==
  /\ pendingLoads # <<>>
  /\ transcripts' = Head(pendingLoads).data
  /\ stats' = Head(pendingLoads).statsData
  /\ pendingLoads' = Tail(pendingLoads)
  /\ paging' = [paging EXCEPT
                   !.offset = Len(Head(pendingLoads).data),
                   !.hasMore = (Len(Head(pendingLoads).data) = PAGE_SIZE)]
  /\ UNCHANGED <<settings, apiKey, recordingsDir, audioFiles, atomResponse, db, dbSeq, jobs, nJobs, nCaptures, lastAudio,
                 isTranscribing, deletes>>
  /\ UNCHANGED <<overlayStatus, overlayVisible, overlayLog, pasteQueue>>
  /\ JobFrame

\* loadMore up to its await, called by the observer of the list's sentinel
\* (hasMore, not loadingMore, not isTranscribing); the request is answered
\* with the page at the offset of that render
LoadMore ==
  /\ paging.hasMore /\ ~paging.loadingMore /\ ~isTranscribing
  /\ paging' = [paging EXCEPT
                  !.loadingMore = TRUE,
                  !.reply = <<ListEntries(getTranscripts(PAGE_SIZE, paging.offset))>>]
  /\ UNCHANGED <<settings, apiKey, recordingsDir, audioFiles, atomResponse, stats, db, dbSeq, jobs, nJobs, nCaptures, lastAudio,
                 isTranscribing, transcripts, pendingLoads, deletes>>
  /\ UNCHANGED <<overlayStatus, overlayVisible, overlayLog, pasteQueue>>
  /\ JobFrame

\* loadMore after its await: the page is appended to the list
LoadMoreApply ==
  /\ paging.reply # <<>>
  /\ LET data == paging.reply[1]
     IN /\ transcripts' = IF Len(data) > 0 THEN transcripts \o data
                                           ELSE transcripts
        /\ paging' = [ offset |-> paging.offset + Len(data),
                       hasMore |-> (Len(data) = PAGE_SIZE),
                       loadingMore |-> FALSE,
                       reply |-> <<>> ]
  /\ UNCHANGED <<settings, apiKey, recordingsDir, audioFiles, atomResponse, stats, db, dbSeq, jobs, nJobs, nCaptures, lastAudio,
                 isTranscribing, pendingLoads, deletes>>
  /\ UNCHANGED <<overlayStatus, overlayVisible, overlayLog, pasteQueue>>
  /\ JobFrame

\* a click on the delete button of the entry with this id: deleteTranscript
\* up to its first await, and the 'delete-transcript' handler
DeleteTranscript(id) ==
  /\ Len(deletes) < MaxDeletes
  /\ HasId(transcripts, id)
  /\ db' = FilterOutId(db, id)
  /\ deletes' = Append(deletes, [id |-> id, phase |-> "deleted"])
  /\ UNCHANGED <<settings, apiKey, recordingsDir, audioFiles, atomResponse, stats, dbSeq, jobs, nJobs, nCaptures, lastAudio,
                 isTranscribing, transcripts, pendingLoads, paging>>
  /\ UNCHANGED <<overlayStatus, overlayVisible, overlayLog, pasteQueue>>
  /\ JobFrame

\* deleteTranscript after its first await: the entry leaves the list
AfterDelete(k) ==
  /\ k \in 1..Len(deletes)
  /\ deletes[k].phase = "deleted"
  /\ transcripts' = FilterOutId(transcripts, deletes[k].id)
  /\ deletes' = [deletes EXCEPT ![k] = [@ EXCEPT !.phase = "stats"]]
  /\ UNCHANGED <<settings, apiKey, recordingsDir, audioFiles, atomResponse, stats, db, dbSeq, jobs, nJobs, nCaptures, lastAudio,
                 isTranscribing, pendingLoads, paging>>
  /\ UNCHANGED <<overlayStatus, overlayVisible, overlayLog, pasteQueue>>
  /\ JobFrame

\* getStats returned to deleteTranscript: setStats
AfterDeleteStats(k) ==
  /\ k \in 1..Len(deletes)
  /\ deletes[k].phase = "stats"
  /\ stats' = getStats
  /\ deletes' = [deletes EXCEPT ![k] = [@ EXCEPT !.phase = "done"]]
  /\ UNCHANGED <<settings, apiKey, recordingsDir, audioFiles, atomResponse, db, dbSeq, jobs, nJobs, nCaptures, lastAudio,
                 isTranscribing, transcripts, pendingLoads, paging>>
  /\ UNCHANGED <<overlayStatus, overlayVisible, overlayLog, pasteQueue>>
  /\ JobFrame

(* ------------------------- main: 'paste-text' -------------------------- *)
\* the clipboard holds a text and possibly data that is not text
\* clipboard.writeText(t) replaces the contents by the text t
WriteText(t) == [text |-> t, other |-> FALSE]
\* clipboard.readText() returns the text of the contents only
ReadText(c) == c.text

\* what the user may have copied: a text, or an image with no text
UserClips == {WriteText(<<"x">>), [text |-> <<>>, other |-> TRUE]}

\* the platforms for which the handler has an exec branch
HasExec(pf) == pf = "win32" \/ pf = "darwin"

\* window.api.pasteText(text): ipcRenderer.send('paste-text', text)
SendPasteText(text) ==
  /\ Len(pasteQueue) + Len(pastes) < MaxPastes
  /\ pasteQueue' = Append(pasteQueue, text)
  /\ UNCHANGED <<platform, clipboard, pastes, externalWrites>>
  /\ UNCHANGED <<hotkeyVars, recorderVars, jobVars, overlayLog>>

\* the 'paste-text' handler: snapshot, write, 'done' with the 1500 ms hide
\* timer, and the exec of the platform's keystroke command
PasteText ==
  /\ pasteQueue # <<>>
  /\ Len(pastes) < MaxPastes
  /\ pasteQueue' = Tail(pasteQueue)
  /\ clipboard' = WriteText(Head(pasteQueue))
  /\ overlayStatus' = "done"
  /\ overlayLog' = Append(overlayLog, "done")
  /\ pastes' = Append(pastes,
       [ text |-> Head(pasteQueue),
         originalClipboard |-> ReadText(clipboard),
         before |-> clipboard,     \* the contents before the paste
         exec |-> IF HasExec(platform) THEN "running" ELSE "none",
         pasted |-> <<>>,
         restore |-> "none",
         hide |-> "armed" ])
  /\ UNCHANGED <<platform, externalWrites>>
  /\ UNCHANGED <<isRecording, isContinuous, currentHotkey, lastHotkeyPressTime,
                 now, mainStatus, overlayVisible, lastEvent, modeLog, lastCall>>
  /\ UNCHANGED <<recorderVars, jobVars>>

PasteFrame ==
  /\ UNCHANGED <<platform, pasteQueue>>
  /\ UNCHANGED <<isRecording, isContinuous, currentHotkey, lastHotkeyPressTime,
                 now, mainStatus, overlayStatus, lastEvent, modeLog, lastCall>>
  /\ UNCHANGED <<recorderVars, jobVars, overlayLog>>

\* the command sends the paste keystroke: the focused application receives
\* what the clipboard holds at that moment
InjectKeystroke(p) ==
  /\ p \in 1..Len(pastes)
  /\ pastes[p].exec = "running"
  /\ pastes' = [pastes EXCEPT ![p] = [@ EXCEPT !.exec = "keyed",
                                               !.pasted = ReadText(clipboard)]]
  /\ UNCHANGED <<clipboard, externalWrites, overlayVisible>>
  /\ PasteFrame

\* the exec callback: whether the command succeeded (after its keystroke) or
\* exited with an error (before it), the 1000 ms restore timer is armed
ExecCallback(p, ok) ==
  /\ p \in 1..Len(pastes)
  /\ pastes[p].exec = IF ok THEN "keyed" ELSE "running"
  /\ pastes' = [pastes EXCEPT ![p] = [@ EXCEPT
                    !.exec = IF ok THEN "ok" ELSE "failed",
                    !.restore = "armed"]]
  /\ UNCHANGED <<clipboard, externalWrites, overlayVisible>>
  /\ PasteFrame

\* the restore timer fires: clipboard.writeText(originalClipboard)
RestoreTimer(p) ==
  /\ p \in 1..Len(pastes)
  /\ pastes[p].restore = "armed"
  /\ clipboard' = WriteText(pastes[p].originalClipboard)
  /\ pastes' = [pastes EXCEPT ![p] = [@ EXCEPT !.restore = "fired"]]
  /\ UNCHANGED <<externalWrites, overlayVisible>>
  /\ PasteFrame

\* the 1500 ms timer armed with 'done' fires: overlayWindow.hide()
HideTimer(p) ==
  /\ p \in 1..Len(pastes)
  /\ pastes[p].hide = "armed"
  /\ overlayVisible' = FALSE
  /\ pastes' = [pastes EXCEPT ![p] = [@ EXCEPT !.hide = "fired"]]
  /\ UNCHANGED <<clipboard, externalWrites>>
  /\ PasteFrame

\* the user copies something while the program runs
ExternalCopy(c) ==
  /\ externalWrites < MaxExternal
  /\ externalWrites' = externalWrites + 1
  /\ clipboard' = c
  /\ UNCHANGED <<pastes, overlayVisible>>
  /\ PasteFrame

(* ------------------------ main: atom:// protocol ----------------------- *)
\* the characters of a request path: the digits, "/" and a letter
Digits == <<"0", "1", "2", "3", "4", "5", "6", "7", "8", "9">>
IsDigit(c) == \E d \in 1..10 : Digits[d] = c

\* String(n) for n >= 0
RECURSIVE ToDecimal(_)
ToDecimal(n) ==
  IF n < 10 THEN <<Digits[n + 1]>>
  ELSE Append(ToDecimal(n \div 10), Digits[(n % 10) + 1])

\* parseInt(s): the value of the longest prefix of digits, NaN when empty
RECURSIVE LeadingDigits(_)
LeadingDigits(str) ==
  IF str = <<>> \/ ~IsDigit(Head(str)) THEN <<>>
  ELSE <<Head(str)>> \o LeadingDigits(Tail(str))

RECURSIVE DigitsValue(_)
DigitsValue(ds) ==
  IF ds = <<>> THEN 0
  ELSE 10 * DigitsValue(SubSeq(ds, 1, Len(ds) - 1))
         + (CHOOSE d \in 1..10 : Digits[d] = ds[Len(ds)]) - 1

ParseInt(str) ==
  LET ds == LeadingDigits(str)
  IN [isNaN |-> ds = <<>>, value |-> DigitsValue(ds)]

\* url.pathname.replace(/^\//, '')
StripSlash(pathname) ==
  IF pathname # <<>> /\ Head(pathname) = "/" THEN Tail(pathname) ELSE pathname

NoResponse == [pathname |-> <<>>, status |-> 0, file |-> 0]
Response(pathname, status, file) ==
  [pathname |-> pathname, status |-> status, file |-> file]

\* protocol.handle('atom'): the response to a request with this pathname
atomHandler(pathname) ==
  LET id == ParseInt(StripSlash(pathname))
      rows == getTranscripts(DefaultLimit, 0)
      found == {i \in 1..Len(rows) : rows[i].id = id.value}
  IN IF id.isNaN THEN Response(pathname, 400, 0)
     ELSE IF found = {} THEN Response(pathname, 404, 0)
     ELSE LET transcript == rows[CHOOSE i \in found : TRUE]
          IN IF transcript.audio_path = 0 THEN Response(pathname, 404, 0)
             ELSE IF transcript.audio_path \notin audioFiles
                  THEN Response(pathname, 404, 0)
                  ELSE Response(pathname, 200, transcript.audio_path)

\* a request atom://audio<pathname> is handled
AtomRequest(pathname) ==
  /\ atomResponse' = atomHandler(pathname)
  /\ UNCHANGED <<settings, apiKey, recordingsDir, audioFiles, stats, db, dbSeq,
                 jobs, nJobs, nCaptures, lastAudio, isTranscribing,
                 transcripts, pendingLoads, paging, deletes>>
  /\ UNCHANGED <<hotkeyVars, recorderVars, pasteVars, overlayLog>>

(* --------------------------- specification ---------------------------- *)
InitRecording ==
  /\ isRecording = FALSE
  /\ isContinuous = FALSE
  /\ currentHotkey = {}
  /\ lastHotkeyPressTime = 0
  /\ now = 0
  /\ mainStatus = <<>>
  /\ overlayStatus = "none"
  /\ overlayVisible = FALSE
  /\ lastEvent = [named |-> FALSE, state |-> "UP", seq |-> 0,
                  down |-> [k \in Keys |-> FALSE]]
  /\ modeLog = "none"
  /\ lastCall = [op |-> "none", idle |-> TRUE, n |-> 0]
  /\ rendererPos = 0
  /\ pendingAcq = 0
  /\ recorders = <<>>
  /\ mediaRecorder = 0
  /\ rendererIsRecording = FALSE
  /\ acqFailures = 0
  /\ startTime = 0
  /\ streamRef = 0
  /\ finished = <<>>
  /\ pasteQueue = <<>>
  /\ pastes = <<>>
  /\ overlayLog = <<>>
  /\ externalWrites = 0

\* the renderer after its first render and the main process with no job
InitApp ==
  /\ jobs = [j \in Jobs |-> NoJob]
  /\ nJobs = 0
  /\ nCaptures = 0
  /\ lastAudio = NoAudio
  /\ isTranscribing = FALSE
  /\ transcripts = <<>>
  /\ pendingLoads = <<>>
  /\ paging = NoPaging
  /\ deletes = <<>>
  /\ recordingsDir = FALSE
  /\ atomResponse = NoResponse
  /\ stats = NoStats

\* a first run: the table is empty and no recording is archived
InitRenderer ==
  /\ db = <<>>
  /\ dbSeq = 0
  /\ audioFiles = {}
  /\ InitApp

\* the hotkey and capture specifications do not read the settings table
Init ==
  /\ InitRecording
  /\ InitRenderer
  /\ settings = Settings("false", "false", Null, Null)
  /\ apiKey = TRUE
  /\ platform = "win32"
  /\ clipboard = WriteText(<<"x">>)

\* the job specifications start from any stored settings, with or without a key
InitJob ==
  /\ InitRecording
  /\ InitRenderer
  /\ \E sa \in SettingValues, ce \in SettingValues :
       settings = Settings(sa, ce, Null, Null)
  /\ apiKey \in BOOLEAN
  /\ platform = "win32"
  /\ clipboard = WriteText(<<"x">>)

\* the main process alone: the hotkey state machine
Next ==
  \/ KeyEvent
  \/ Tick

Spec == Init /\ [][Next]_vars

\* the main process together with the renderer's capture hook
NextCapture ==
  \/ HotkeyEvent
  \/ Tick
  \/ OnRecordingStatus
  \/ GetUserMediaResolve
  \/ GetUserMediaReject
  \/ \E i \in 1..MaxMsgs : RecorderOnStop(i)

SpecCapture == Init /\ [][NextCapture]_vars

\* the session controller: startRecording and stopRecording called in any
\* order, with the renderer's capture hook
NextSession ==
  \/ StartRecording
  \/ StopRecording
  \/ Tick
  \/ OnRecordingStatus
  \/ GetUserMediaResolve
  \/ GetUserMediaReject
  \/ \E i \in 1..MaxMsgs : RecorderOnStop(i)

SpecSession == Init /\ [][NextSession]_vars

\* the transcription jobs: the 'transcribe-audio' handler and the renderer
NextJob ==
  \/ \E d \in Durations : HandleFinished(d)
  \/ RetryTranscription
  \/ \E j \in Jobs : TranscribeAudio(j)
  \/ \E j \in Jobs, ok \in BOOLEAN : TranscriptionSettle(j, ok, <<"a">>)
  \/ \E j \in Jobs, ok \in BOOLEAN : ConversionSettle(j, ok)
  \/ \E j \in Jobs, ok \in BOOLEAN, c \in RewriteContents : RewriteSettle(j, ok, c)
  \/ \E k \in {"save_audio", "cleanup_enabled"}, v \in SettingValues : SetSetting(k, v)
  \/ \E j \in Jobs : TranscribeReply(j)
  \/ \E j \in Jobs : SaveTranscript(j)
  \/ \E j \in Jobs : AfterSave(j)
  \/ \E j \in Jobs : AfterStats(j)
  \/ \E j \in Jobs : DelayedSync(j)
  \/ OnWindowShown
  \/ InitialLoadApply

SpecJob == InitJob /\ [][NextJob]_vars

\* the 'transcribe-audio' handler alone, for the jobs the renderer submits
NextPipeline ==
  \/ \E d \in Durations : HandleFinished(d)
  \/ \E j \in Jobs : TranscribeAudio(j)
  \/ \E j \in Jobs, ok \in BOOLEAN, t \in WhisperTexts : TranscriptionSettle(j, ok, t)
  \/ \E j \in Jobs, ok \in BOOLEAN : ConversionSettle(j, ok)
  \/ \E j \in Jobs, ok \in BOOLEAN, c \in RewriteContents : RewriteSettle(j, ok, c)
  \/ \E k \in {"save_audio", "cleanup_enabled"}, v \in SettingValues : SetSetting(k, v)

SpecPipeline == InitJob /\ [][NextPipeline]_vars

\* the renderer's try block after the pipeline: saveTranscript, getStats and
\* pasteText, each invoke succeeding or rejecting
NextPersist ==
  \/ \E d \in Durations : HandleFinished(d)
  \/ \E j \in Jobs : TranscribeAudio(j)
  \/ \E j \in Jobs, ok \in BOOLEAN, t \in WhisperTexts : TranscriptionSettle(j, ok, t)
  \/ \E j \in Jobs : TranscribeReply(j)
  \/ \E j \in Jobs : SaveTranscript(j)
  \/ \E j \in Jobs : SaveTranscriptRejects(j)
  \/ \E j \in Jobs : AfterSave(j)
  \/ \E j \in Jobs : GetStatsRejects(j)
  \/ \E j \in Jobs : AfterStats(j)
  \/ \E j \in Jobs : DelayedSync(j)
  \/ InitialLoadApply

SpecPersist == Init /\ [][NextPersist]_vars

\* the paste handler alone, on any platform, with the clipboard holding what
\* the user copied last
InitPaste ==
  /\ InitRecording
  /\ InitRenderer
  /\ settings = Settings("false", "false", Null, Null)
  /\ apiKey = TRUE
  /\ platform \in Platforms
  /\ clipboard \in UserClips

NextPaste ==
  \/ \E t \in PasteTexts : SendPasteText(t)
  \/ PasteText
  \/ \E p \in 1..MaxPastes : InjectKeystroke(p)
  \/ \E p \in 1..MaxPastes, ok \in BOOLEAN : ExecCallback(p, ok)
  \/ \E p \in 1..MaxPastes : RestoreTimer(p)
  \/ \E p \in 1..MaxPastes : HideTimer(p)
  \/ \E c \in UserClips : ExternalCopy(c)

SpecPaste == InitPaste /\ [][NextPaste]_vars

\* the transcripts table: saveTranscript called with any text and duration
SaveTexts == UNION {[1..n -> Chars] : n \in 0..MaxLen}

NextSave ==
  \E text \in SaveTexts, duration \in SaveDurations :
    SaveTranscriptCall(text, duration)

SpecSave == Init /\ [][NextSave]_vars

\* the whole cycle from the start of a recording to the paste: startRecording
\* and stopRecording, the capture hook, the job and the paste handler, with
\* cleanup on or off
InitCycle ==
  /\ InitRecording
  /\ InitRenderer
  /\ \E ce \in SettingValues : settings = Settings("false", ce, Null, Null)
  /\ apiKey = TRUE
  /\ platform \in Platforms
  /\ clipboard = WriteText(<<"x">>)

NextCycle ==
  \/ StartRecording
  \/ StopRecording
  \/ Tick
  \/ OnRecordingStatus
  \/ GetUserMediaResolve
  \/ \E i \in 1..MaxMsgs : RecorderOnStop(i)
  \/ \E j \in Jobs : TranscribeAudio(j)
  \/ \E j \in Jobs, ok \in BOOLEAN, t \in WhisperTexts : TranscriptionSettle(j, ok, t)
  \/ \E j \in Jobs, ok \in BOOLEAN, c \in RewriteContents : RewriteSettle(j, ok, c)
  \/ \E j \in Jobs : TranscribeReply(j)
  \/ \E j \in Jobs : SaveTranscript(j)
  \/ \E j \in Jobs : AfterSave(j)
  \/ \E j \in Jobs : AfterStats(j)
  \/ PasteText
  \/ \E p \in 1..MaxPastes : InjectKeystroke(p)
  \/ \E p \in 1..MaxPastes, ok \in BOOLEAN : ExecCallback(p, ok)
  \/ \E p \in 1..MaxPastes : RestoreTimer(p)
  \/ \E p \in 1..MaxPastes : HideTimer(p)

SpecCycle == InitCycle /\ [][NextCycle]_vars

\* the cleanup step of one job under every stored configuration, the
\* settings page changing the cleanup rows at any moment
CleanupKeys == {"cleanup_enabled", "cleanup_style", "cleanup_custom_prompt"}

InitCleanup ==
  /\ InitRecording
  /\ InitRenderer
  /\ \E ce \in SettingValues, st \in StyleValues, cp \in PromptValues :
       settings = Settings("false", ce, st, cp)
  /\ apiKey = TRUE
  /\ platform = "win32"
  /\ clipboard = WriteText(<<"x">>)

NextCleanup ==
  \/ nJobs = 0 /\ HandleFinished(MinDuration)
  \/ \E j \in Jobs : TranscribeAudioObserved(j)
  \/ \E j \in Jobs, ok \in BOOLEAN, t \in WhisperTexts : TranscriptionSettle(j, ok, t)
  \/ \E j \in Jobs, ok \in BOOLEAN, c \in RewriteContents : RewriteSettle(j, ok, c)
  \/ \E k \in CleanupKeys : \E v \in ValuesOf(k) : SetSetting(k, v)

SpecCleanup == InitCleanup /\ [][NextCleanup]_vars

\* recordings made while earlier jobs are in flight: the hotkey listener
\* together with the renderer's jobs, a 'recording-finished' event arriving
\* at any moment
NextOverlap ==
  \/ HotkeyEvent
  \/ HandleFinished(MinDuration)
  \/ \E j \in Jobs : TranscribeAudio(j)
  \/ \E j \in Jobs, ok \in BOOLEAN, t \in WhisperTexts : TranscriptionSettle(j, ok, t)
  \/ \E j \in Jobs : TranscribeReply(j)
  \/ \E j \in Jobs : SaveTranscript(j)
  \/ \E j \in Jobs : AfterSave(j)
  \/ \E j \in Jobs : AfterStats(j)
  \/ \E j \in Jobs : DelayedSync(j)
  \/ InitialLoadApply

SpecOverlap == Init /\ [][NextOverlap]_vars

\* failures and retries: recordings whose transcription may fail, and the
\* retry button, which may add a job to those the recordings submitted
NextRetry ==
  \/ \E d \in Durations : HandleFinished(d)
  \/ retryTranscription
  \/ \E j \in Jobs : TranscribeAudio(j)
  \/ \E j \in Jobs, ok \in BOOLEAN : TranscriptionSettle(j, ok, <<"a">>)
  \/ \E j \in Jobs : TranscribeReply(j)
  \/ \E j \in Jobs : SaveTranscript(j)
  \/ \E j \in Jobs : AfterSave(j)
  \/ \E j \in Jobs : AfterStats(j)
  \/ \E j \in Jobs : DelayedSync(j)
  \/ InitialLoadApply

SpecRetry == Init /\ [][NextRetry]_vars

\* the files of concurrent jobs: 'recording-finished' events arriving at any
\* moment, the clock advancing or not between two steps, the handler of each
\* job and its two promises, with save_audio on or off
InitFiles ==
  /\ InitRecording
  /\ InitRenderer
  /\ \E sa \in SettingValues : settings = Settings(sa, "false", Null, Null)
  /\ apiKey = TRUE
  /\ platform = "win32"
  /\ clipboard = WriteText(<<"x">>)

NextFiles ==
  \/ Tick
  \/ HandleFinished(MinDuration)
  \/ \E j \in Jobs : TranscribeAudio(j)
  \/ \E j \in Jobs, ok \in BOOLEAN : TranscriptionSettle(j, ok, <<"a">>)
  \/ \E j \in Jobs, ok \in BOOLEAN : ConversionSettle(j, ok)

SpecFiles == InitFiles /\ [][NextFiles]_vars

\* the atom:// protocol over a table kept from earlier runs: any number of
\* rows up to MaxStored, row 1 and the other rows each with an archive on
\* disk, with an audio_path whose file is gone, or with no audio_path
TableSizes == {0, 1, DefaultLimit, DefaultLimit + 1, MaxStored}

StoredRow(i, kind) ==
  [ id |-> i, text |-> <<"a">>, duration |-> MinDuration,
    wpm |-> SavedWpm(<<"a">>, MinDuration),
    audio_path |-> IF kind = "null" THEN 0 ELSE PermanentFile(i) ]

Pathnames ==
  {<<"/">> \o ToDecimal(n) : n \in 0..(MaxStored + 1)}
    \cup {<<"/">>, <<"/", "a">>, <<"/", "1", "a">>, <<"/", "a", "1">>}

InitAtom ==
  /\ InitRecording
  /\ InitApp
  /\ \E n \in TableSizes, k1, k \in {"present", "missing", "null"} :
       LET kind(i) == IF i = 1 THEN k1 ELSE k
       IN /\ db = [i \in 1..n |-> StoredRow(i, kind(i))]
          /\ dbSeq = n
          /\ audioFiles = {PermanentFile(i) : i \in {r \in 1..n : kind(r) = "present"}}
  /\ settings = Settings("false", "false", Null, Null)
  /\ apiKey = TRUE
  /\ platform = "win32"
  /\ clipboard = WriteText(<<"x">>)

NextAtom == \E pathname \in Pathnames : AtomRequest(pathname)

SpecAtom == InitAtom /\ [][NextAtom]_vars

\* the list of the main window over a table kept from earlier runs: the
\* first load, the pages loaded on scrolling, one recording and its job, and
\* the delete button
PagedSizes == {0, 1, PAGE_SIZE + 1}

InitPaging ==
  /\ InitRecording
  /\ InitApp
  /\ \E n \in PagedSizes :
       /\ db = [i \in 1..n |-> StoredRow(i, "null")]
       /\ dbSeq = n
  /\ audioFiles = {}
  /\ settings = Settings("false", "false", Null, Null)
  /\ apiKey = TRUE
  /\ platform = "win32"
  /\ clipboard = WriteText(<<"x">>)

NextPaging ==
  \/ nJobs = 0 /\ HandleFinished(MinDuration)
  \/ \E j \in Jobs : TranscribeAudio(j)
  \/ \E j \in Jobs, ok \in BOOLEAN : TranscriptionSettle(j, ok, <<"a">>)
  \/ \E j \in Jobs : TranscribeReply(j)
  \/ \E j \in Jobs : SaveTranscript(j)
  \/ \E j \in Jobs : AfterSave(j)
  \/ \E j \in Jobs : AfterStats(j)
  \/ \E j \in Jobs : DelayedSync(j)
  \/ OnWindowShown
  \/ InitialLoadApply
  \/ LoadMore
  \/ LoadMoreApply
  \* the delete button of the oldest row, of the newest row of the largest
  \* table, and of the row a job adds to it
  \/ \E id \in {1, PAGE_SIZE + 1, PAGE_SIZE + 2} : DeleteTranscript(id)
  \/ \E k \in 1..MaxDeletes : AfterDelete(k)
  \/ \E k \in 1..MaxDeletes : AfterDeleteStats(k)

SpecPaging == InitPaging /\ [][NextPaging]_vars

TypeOK ==
  /\ isRecording \in BOOLEAN
  /\ isContinuous \in BOOLEAN
  /\ currentHotkey \subseteq Keys
  /\ lastHotkeyPressTime \in 0..now
  /\ Len(mainStatus) <= MaxMsgs
  /\ rendererPos \in 0..Len(mainStatus)
  /\ mediaRecorder \in 0..Len(recorders)
  /\ nJobs \in 0..(MaxJobs + MaxRetries)
  /\ dbSeq = Len(db)
  /\ \A j \in Jobs : jobs[j].rphase = "none" <=> j > nJobs

(* ============================ properties ============================== *)
\* a step of the keyboard listener for a named key event
KeyStep == lastEvent'.seq # lastEvent.seq /\ lastEvent'.named
DownStep == KeyStep /\ lastEvent'.state = "DOWN"
UpStep == KeyStep /\ lastEvent'.state = "UP"
SentNothing == mainStatus' = mainStatus /\ overlayStatus' = overlayStatus
SentStart == mainStatus' = Append(mainStatus, TRUE)
SentStop == mainStatus' = Append(mainStatus, FALSE)

\* C1: at most one recording session is open: the 'recording-status' messages
\* sent to the main window alternate true, false, true, ... starting with
\* true, and a session is open exactly when the last message was true.
C1_StatusAlternates ==
  /\ \A i \in 1..Len(mainStatus) : mainStatus[i] = (i % 2 = 1)
  /\ isRecording = (Len(mainStatus) % 2 = 1)

\* a second session has been opened after the first was closed, and further
\* DOWN events arrived while it was open
C1_Witness ==
  /\ Len(mainStatus) = 3
  /\ isRecording
  /\ lastEvent.state = "DOWN"
  /\ "A" \in currentHotkey

\* C2: in Idle a named DOWN event that leaves ctrl and alt in the key set
\* starts recording exactly once, records the press time, and sets continuous
\* mode iff SPACE is held; any other DOWN and every UP in Idle starts nothing.
C2_IdleStart ==
  [][ (KeyStep /\ ~isRecording) =>
        IF /\ lastEvent'.state = "DOWN"
           /\ isCtrlIn(currentHotkey') /\ isAltIn(currentHotkey')
        THEN /\ isRecording'
             /\ SentStart
             /\ lastHotkeyPressTime' = now
             /\ isContinuous' = isSpaceIn(currentHotkey')
        ELSE /\ ~isRecording'
             /\ mainStatus' = mainStatus ]_vars

\* a recording started directly in continuous mode, at a time after 0
C2_Witness ==
  /\ isRecording /\ isContinuous
  /\ modeLog = "started Continuous"
  /\ lastHotkeyPressTime = now /\ now > 0
  /\ mainStatus = <<TRUE>>

\* C3: in HoldActive an UP that leaves ctrl or alt missing stops the
\* recording when now - pressTimestamp >= 300 and switches to continuous mode
\* without stopping when it is < 300; an UP that leaves both held changes
\* nothing.
C3_HoldRelease ==
  [][ (UpStep /\ isRecording /\ ~isContinuous) =>
        IF ~isCtrlIn(currentHotkey') \/ ~isAltIn(currentHotkey')
        THEN IF now - lastHotkeyPressTime >= ShortPressMs
             THEN ~isRecording' /\ SentStop
             ELSE isRecording' /\ isContinuous' /\ SentNothing
        ELSE isRecording' /\ ~isContinuous' /\ SentNothing ]_vars

\* a hold recording stopped by a release exactly 300 ms after the press
C3_Witness ==
  /\ ~isRecording /\ ~isContinuous
  /\ lastEvent.state = "UP"
  /\ mainStatus = <<TRUE, FALSE>>
  /\ now - lastHotkeyPressTime = ShortPressMs

\* C4: in ContinuousActive a DOWN that leaves ctrl and alt held and SPACE not
\* held stops the recording; a DOWN that leaves SPACE held (or ctrl or alt
\* missing) does not.
C4_ContinuousStop ==
  [][ (DownStep /\ isRecording /\ isContinuous) =>
        IF /\ isCtrlIn(currentHotkey') /\ isAltIn(currentHotkey')
           /\ ~isSpaceIn(currentHotkey')
        THEN ~isRecording' /\ SentStop
        ELSE isRecording' /\ isContinuous' /\ SentNothing ]_vars

\* a recording that a quick tap made continuous has been stopped by a DOWN
C4_Witness ==
  /\ ~isRecording
  /\ modeLog = "short press"
  /\ lastEvent.state = "DOWN"
  /\ mainStatus = <<TRUE, FALSE>>

\* C5: in HoldActive a DOWN that leaves SPACE, ctrl and alt held switches the
\* session to continuous mode in place: isRecording stays true and no status
\* message is sent.
C5_UpgradeInPlace ==
  [][ (DownStep /\ isRecording /\ ~isContinuous
         /\ isSpaceIn(currentHotkey') /\ isCtrlIn(currentHotkey')
         /\ isAltIn(currentHotkey')) =>
        (isRecording' /\ isContinuous' /\ SentNothing
           /\ overlayVisible' = overlayVisible
           /\ lastHotkeyPressTime' = lastHotkeyPressTime) ]_vars

\* a hold recording has just been upgraded by SPACE
C5_Witness ==
  /\ isRecording /\ isContinuous
  /\ modeLog = "upgraded"
  /\ mainStatus = <<TRUE>>
  /\ lastEvent.state = "DOWN"
  /\ overlayStatus = "recording"

\* C6: in ContinuousActive no UP event stops the recording, and a continuous
\* recording ends only in a step of the listener for a DOWN event.
C6_ContinuousIgnoresUp ==
  [][ /\ (UpStep /\ isRecording /\ isContinuous) =>
           (isRecording' /\ isContinuous' /\ SentNothing)
      /\ (isRecording /\ isContinuous /\ ~isRecording') => DownStep ]_vars

\* a continuous recording entered by a quick tap is still open after the
\* release of every key
C6_Witness ==
  /\ isRecording /\ isContinuous
  /\ modeLog = "short press"
  /\ lastEvent.state = "UP"
  /\ currentHotkey = {}
  /\ now - lastHotkeyPressTime >= ShortPressMs

\* C10: once a getUserMedia rejection has been handled and the renderer has
\* nothing left to process and no capture running, the main process is not
\* recording.
C10_FailureReturnsToIdle ==
  ( /\ acqFailures > 0
    /\ rendererPos = Len(mainStatus)
    /\ pendingAcq = 0
    /\ \A i \in 1..Len(recorders) : recorders[i] # "recording" )
  => ~isRecording

\* C7: with archiving on, when the transcription succeeded and the transcode
\* failed, the job is not rejected, and it resolves with audioPath = null.
C7_TranscodeFailureTolerated ==
  \A j \in Jobs :
    (jobs[j].shouldSaveAudio /\ jobs[j].transcription = "ok"
       /\ jobs[j].conversion = "failed")
    => /\ jobs[j].outcome # "rejected"
       /\ jobs[j].outcome = "resolved" => jobs[j].audioPath = 0

\* C8: when the rewrite call of a job failed, the job resolves with the
\* transcription text unchanged and with the audioPath the job had before the
\* rewrite (the archive file with archiving on, null otherwise).
C8_RewriteFailureFallsBack ==
  \A j \in Jobs :
    jobs[j].rewrite = "failed"
    => /\ jobs[j].outcome = "resolved"
       /\ jobs[j].text = jobs[j].respText
       /\ jobs[j].transcription = "ok"
       /\ jobs[j].audioPath =
            IF jobs[j].shouldSaveAudio THEN PermanentFile(j) ELSE 0

\* an archived job whose rewrite failed resolved with its untrimmed text
C8_Witness ==
  \E j \in Jobs :
    /\ jobs[j].rewrite = "failed"
    /\ jobs[j].refining
    /\ jobs[j].outcome = "resolved"
    /\ jobs[j].text = <<" ", "a">>
    /\ jobs[j].audioPath = PermanentFile(j)

\* the list has the entry id with status 'error'
HasError(q, id) == \E i \in 1..Len(q) : q[i].id = id /\ q[i].status = "error"

\* C9: when the transcription call of a job has failed, transcribe-audio
\* rejects, the renderer's catch marks the job's placeholder 'error', and the
\* job is never saved nor pasted.
C9_FailedJobMarked ==
  /\ [](\A j \in Jobs :
          jobs[j].transcription = "failed"
          => /\ jobs[j].outcome = "rejected"
             /\ jobs[j].savedId = 0
             /\ jobs[j].pasteCalls = 0)
  /\ [][ \A j \in Jobs :
           (jobs[j].transcription = "failed" /\ jobs[j].rphase = "invoked"
              /\ jobs'[j].rphase # "invoked")
           => /\ jobs'[j].rphase = "failed"
              /\ HasError(transcripts', TempId(j)) ]_vars

\* nothing of paste p is still to come: its command has called back (or
\* there was none) and its restore timer is not pending
PasteOver(p) ==
  /\ pastes[p].exec \in {"none", "ok", "failed"}
  /\ pastes[p].exec \in {"ok", "failed"} => pastes[p].restore = "fired"

\* C11: for a single paste with no competing clipboard write, on every
\* platform: until the restore the clipboard holds the pasted text, and once
\* the paste is over the clipboard holds what it held before the paste.
C11_ClipboardRestored ==
  (Len(pastes) = 1 /\ externalWrites = 0)
  => /\ pastes[1].restore # "fired" => clipboard = WriteText(pastes[1].text)
     /\ PasteOver(1) => clipboard = pastes[1].before

\* C12: when the keystroke command of a single paste exited with an error
\* (and nothing else wrote the clipboard), the clipboard holds the pasted
\* text: it is not reverted.
C12_FailedInjectionKeepsText ==
  (Len(pastes) = 1 /\ externalWrites = 0 /\ pastes[1].exec = "failed")
  => clipboard = WriteText(pastes[1].text)

\* a step that is a direct call of stopRecording
StopCall == lastCall'.n # lastCall.n /\ lastCall'.op = "stop"
\* a step in which the renderer handles a 'recording-status' false
RendererStop == rendererPos' = rendererPos + 1 /\ ~mainStatus[rendererPos + 1]

\* C13: stopRecording called while isRecording is false changes no state
\* and sends nothing, and the renderer's stop with no MediaRecorder in state
\* 'recording' stops no recorder, so that no 'recording-finished' event can
\* come of it.
C13_StopIsNoOp ==
  [][ /\ (StopCall /\ ~isRecording)
           => UNCHANGED <<isRecording, isContinuous, currentHotkey,
                          lastHotkeyPressTime, mainStatus, overlayStatus,
                          overlayVisible, overlayLog, recorderVars, jobVars,
                          pasteVars>>
      /\ (RendererStop
            /\ ~(mediaRecorder # 0 /\ recorders[mediaRecorder] = "recording"))
           => UNCHANGED <<recorders, mediaRecorder, rendererIsRecording,
                          streamRef, finished, nCaptures, jobs>> ]_vars

\* stopRecording was called a second time after the session was closed, and
\* the renderer has handled the stop while its start was still waiting for
\* the microphone
C13_Witness ==
  /\ lastCall.op = "stop" /\ lastCall.idle
  /\ mainStatus = <<TRUE, FALSE>>
  /\ rendererPos = 2
  /\ pendingAcq = 1
  /\ recorders = <<>>

\* C14: every job whose pipeline returned a text calls pasteText exactly
\* once, with that text, whether or not saveTranscript and getStats succeed.
C14_PasteIndependentOfSave ==
  /\ [](\A j \in Jobs :
          (jobs[j].outcome = "resolved" /\ jobs[j].rphase \in {"done", "failed"})
          => jobs[j].pasteCalls = 1)
  /\ [][ \A j \in Jobs :
           /\ jobs'[j].pasteCalls \in {jobs[j].pasteCalls, jobs[j].pasteCalls + 1}
           /\ jobs'[j].pasteCalls = jobs[j].pasteCalls + 1
                => pasteQueue' = Append(pasteQueue, jobs[j].text) ]_vars

\* the renderer has nothing left to do for the sessions so far: every status
\* message is handled, no getUserMedia is pending, no 'stop' event is pending
CaptureQuiet ==
  /\ rendererPos = Len(mainStatus)
  /\ pendingAcq = 0
  /\ \A i \in 1..Len(recorders) :
       recorders[i] = "inactive" => \E k \in 1..Len(finished) : finished[k].rec = i

\* C15: once the renderer is quiet, there is exactly one 'recording-finished'
\* event for each session that was started and stopped, and each of these
\* events has started exactly one job.
C15_OneCapturePerSession ==
  CaptureQuiet
  => /\ Len(finished) = Len(mainStatus) \div 2
     /\ nJobs = Len(finished)

\* C16: a placeholder that has been marked 'error' stays in the list with
\* that status: no step (the job's delayed sync, a window-shown reload)
\* removes it.
C16_ErrorEntryStays ==
  [][ \A j \in Jobs :
        HasError(transcripts, TempId(j)) => HasError(transcripts', TempId(j)) ]_vars

IsPrefix(a, b) == Len(a) <= Len(b) /\ a = SubSeq(b, 1, Len(a))

IsDone(status) == status = "done"

\* the statuses of one whole cycle
CycleStatuses ==
  <<"recording", "processing">>
    \o (IF settings.cleanup_enabled = "true" THEN <<"refining">> ELSE <<>>)
    \o <<"done">>

\* one recording so far, hence one job at most: nothing overlaps the cycle
OneCycle == Len(mainStatus) <= 2 /\ nJobs <= 1

\* C17: the statuses pushed to the overlay during one cycle that nothing
\* overlaps are, in this order, recording, processing, refining (iff cleanup
\* is enabled) and done; 'refining' is pushed in the step that issues the
\* rewrite call; 'done' is pushed in the step that writes the text to the
\* clipboard, when the keystroke of that paste has not been injected.
C17_OverlayOrder ==
  /\ [](OneCycle => /\ IsPrefix(overlayLog, CycleStatuses)
                     /\ Len(pastes) = 1 => overlayLog = CycleStatuses)
  /\ [][ \A j \in Jobs :
           (jobs[j].rewrite = "none" /\ jobs'[j].rewrite = "pending")
           => overlayLog' = Append(overlayLog, "refining") ]_vars
  /\ [][ (Len(overlayLog') > Len(overlayLog)
            /\ overlayLog'[Len(overlayLog')] = "done")
          => /\ Len(pastes') = Len(pastes) + 1
             /\ clipboard' = WriteText(pastes'[Len(pastes')].text)
             /\ pastes'[Len(pastes')].exec \in {"running", "none"} ]_vars
  /\ [](\A p \in 1..Len(pastes) :
          pastes[p].exec \in {"keyed", "ok"}
          => Len(SelectSeq(overlayLog, IsDone)) >= p)

\* a whole cycle with cleanup enabled has ended with the keystroke injected
C17_Witness ==
  /\ mainStatus = <<TRUE, FALSE>>
  /\ overlayLog = <<"recording", "processing", "refining", "done">>
  /\ Len(pastes) = 1 /\ pastes[1].exec = "ok"
  /\ jobs[1].rewrite = "ok"
  /\ jobs[1].rphase = "done"

\* C18: whenever the main process is recording, the overlay is visible and
\* the last status pushed to it is 'recording'.
C18_OverlayShowsRecording ==
  isRecording => (overlayVisible /\ overlayStatus = "recording")

\* C19: every stored row has wpm = wordCount(text) / (duration / 60) when
\* its duration is above 0 and wpm = 0 otherwise, wordCount being the count
\* getStats uses (0 for an empty or white-space-only text).
C19_WpmOfWordCount ==
  \A i \in 1..Len(db) :
    IF db[i].duration > 0
    THEN db[i].wpm.num * db[i].duration
           = StatsWords(db[i].text) * 600 * db[i].wpm.den
    ELSE db[i].wpm.num = 0

Settled(p) == p \in {"ok", "failed"}

\* C20: in a job with archiving on the transcription request is issued
\* before the transcode; the job neither issues the rewrite call nor ends
\* before both the transcription and the transcode have completed; and the
\* rewrite is never in flight together with either of them.
C20_JoinBeforeRewrite ==
  \A j \in Jobs :
    jobs[j].shouldSaveAudio
    => /\ IsPrefix(<<"transcription", "transcode">>, jobs[j].issued)
       /\ (jobs[j].rewrite # "none" \/ jobs[j].outcome # "none")
            => (Settled(jobs[j].transcription) /\ Settled(jobs[j].conversion))
       /\ jobs[j].rewrite = "pending"
            => (jobs[j].transcription = "ok" /\ jobs[j].conversion = "ok")

\* the step in which the handler is entered for job j
HandlerEntered(j) == jobs[j].mphase = "none" /\ jobs'[j].mphase # "none"

\* C21: when save_audio is not 'true' as the handler of a job is entered,
\* that step starts no transcode, creates neither the recordings directory
\* nor an archive file, and leaves the handler awaiting the transcription
\* alone (or rejected for want of a key); and whatever is stored under
\* save_audio afterwards, the job never has a transcode or an archive file,
\* never awaits the pair, and has audioPath = null.
C21_NoArchiveWhenOff ==
  /\ [][ \A j \in Jobs :
           (HandlerEntered(j) /\ settings.save_audio # "true")
           => /\ ~jobs'[j].shouldSaveAudio
              /\ jobs'[j].conversion = "none"
              /\ jobs'[j].archiveFile = "none"
              /\ jobs'[j].issued \in {<<>>, <<"transcription">>}
              /\ jobs'[j].mphase \in {"awaitTranscription", "settled"}
              /\ recordingsDir' = recordingsDir ]_vars
  /\ [](\A j \in Jobs :
          ~jobs[j].shouldSaveAudio
          => /\ jobs[j].conversion = "none"
             /\ jobs[j].archiveFile = "none"
             /\ jobs[j].mphase # "awaitAll"
             /\ \A i \in 1..Len(jobs[j].issued) : jobs[j].issued[i] # "transcode"
             /\ jobs[j].audioPath = 0)

\* a job entered with archiving off has resolved with a rewritten text after
\* save_audio was switched on, and there is no recordings directory
C21_Witness ==
  \E j \in Jobs :
    /\ ~jobs[j].shouldSaveAudio
    /\ jobs[j].outcome = "resolved"
    /\ jobs[j].rewrite = "ok"
    /\ jobs[j].audioPath = 0
    /\ settings.save_audio = "true"
    /\ ~recordingsDir

\* C22: when a job has ended (its handler resolved or rejected), on
\* whatever branch, the temporary .webm file written at its start does not
\* exist any more.
C22_TempFileRemoved ==
  \A j \in Jobs : jobs[j].outcome # "none" => ~jobs[j].tempFile

\* C23: a job that resolved has been rewritten exactly when cleanup_enabled
\* was 'true' as its handler was entered, and its rewrite was requested with
\* the style and the custom prompt stored at that moment, whatever the
\* settings page stored while the transcription was in flight.
C23_CleanupSnapshot ==
  \A j \in Jobs :
    jobs[j].outcome = "resolved"
    => /\ (jobs[j].rewrite # "none") = (jobs[j].cleanupAtStart.enabled = "true")
       /\ jobs[j].rewrite # "none"
            => /\ jobs[j].request.style = StyleOf(jobs[j].cleanupAtStart.style)
               /\ jobs[j].request.customPrompt
                    = CustomPromptOf(jobs[j].cleanupAtStart.customPrompt)

\* the instruction and the model the claim gives for a style
ClaimedInstruction(style) ==
  CASE style = "natural" -> "You are an expert editor."
    [] style = "professional" -> "You are a professional assistant."
    [] style = "casual" -> "You are a friendly assistant."
    [] style = "concise" -> "You are a concise editor."

ClaimedModel(style) ==
  IF style \in {"professional", "casual"} THEN BestModel ELSE FastestModel

\* C24: every rewrite request made under one of the four styles carries the
\* instruction of that style, followed by the custom prompt when it is not
\* empty and by nothing when it is, and names the highest-quality model for
\* Professional and Casual and the fastest model for Natural and Concise.
C24_StyleSelectsRequest ==
  \A j \in Jobs :
    (jobs[j].rewrite # "none" /\ jobs[j].request.style \in Styles)
    => LET r == jobs[j].request
       IN /\ Head(r.system) = ClaimedInstruction(r.style)
          /\ r.customPrompt = "" => Len(r.system) = 1
          /\ r.customPrompt # "" => r.system[Len(r.system)] = r.customPrompt
          /\ r.model = ClaimedModel(r.style)

\* the style a request is made under: Natural stands in for a style that is
\* not stored or not known
RequestStyle(style) == IF style \in Styles THEN style ELSE "natural"

\* C24 (amended): every rewrite request carries the instruction of its
\* style, Natural standing in for an unset or unknown style, followed by
\* "Additional instructions: " and the custom prompt when that is not empty
\* and by nothing when it is; the model is the highest-quality one for
\* Professional and Casual, the fastest one for Concise, and for Natural the
\* default model, which is neither of the two.
C24_StyleSelectsRequestAmended ==
  \A j \in Jobs :
    jobs[j].rewrite # "none"
    => LET r == jobs[j].request
           st == RequestStyle(r.style)
       IN /\ r.system =
               IF r.customPrompt = "" THEN <<ClaimedInstruction(st)>>
               ELSE <<ClaimedInstruction(st), AdditionalPrefix, r.customPrompt>>
          /\ r.model = CASE st \in {"professional", "casual"} -> BestModel
                          [] st = "concise" -> FastestModel
                          [] OTHER -> DefaultModel
          /\ st = "natural" => r.model \notin {BestModel, FastestModel}

\* a rewrite is in flight that was requested with no style stored and with
\* a custom prompt
C24_Witness ==
  \E j \in Jobs :
    /\ jobs[j].rewrite = "pending"
    /\ jobs[j].cleanupAtStart.style = Null
    /\ jobs[j].request.style = "natural"
    /\ jobs[j].request.model = "gpt-5-mini"
    /\ jobs[j].request.system
         = <<"You are an expert editor.", AdditionalPrefix, "be brief">>

\* the MediaRecorders in state 'recording'
Recording == {i \in 1..Len(recorders) : recorders[i] = "recording"}

\* C25: at most one MediaRecorder is recording at any time, and none is
\* recording once the renderer has handled every 'recording-status' message,
\* the last of them being a stop, and no getUserMedia is pending.
C25_CaptureExclusive ==
  /\ Cardinality(Recording) <= 1
  /\ ( /\ mainStatus # <<>>
       /\ ~mainStatus[Len(mainStatus)]
       /\ rendererPos = Len(mainStatus)
       /\ pendingAcq = 0 )
     => Recording = {}

\* the listener's decision for a key event, from the hotkey state alone
StartsOn ==
  /\ ~isRecording /\ lastEvent'.state = "DOWN"
  /\ isCtrlIn(currentHotkey') /\ isAltIn(currentHotkey')
StopsOn ==
  /\ isRecording
  /\ IF isContinuous
     THEN /\ lastEvent'.state = "DOWN"
          /\ isCtrlIn(currentHotkey') /\ isAltIn(currentHotkey')
          /\ ~isSpaceIn(currentHotkey')
     ELSE /\ lastEvent'.state = "UP"
          /\ ~isCtrlIn(currentHotkey') \/ ~isAltIn(currentHotkey')
          /\ now - lastHotkeyPressTime >= ShortPressMs

\* job j's handleTranscription moves from phase a on
Leaves(j, a) == jobs[j].rphase = a /\ jobs'[j].rphase # a

Transcribing(q, j) ==
  /\ jobs[j].rphase = "invoked"
  /\ \E i \in 1..Len(q) : q[i].id = TempId(j) /\ q[i].status = "transcribing"

\* C27: while a job awaits its transcription no initialLoad replaces the
\* list, and the job's 'transcribing' placeholder stays in the list as long
\* as the job is waiting.
C27_PlaceholderKept ==
  [][ \A j \in Jobs :
        (Transcribing(transcripts, j) /\ jobs'[j].rphase = "invoked")
        => /\ pendingLoads # <<>> => pendingLoads' # Tail(pendingLoads)
           /\ \E i \in 1..Len(transcripts') :
                /\ transcripts'[i].id = TempId(j)
                /\ transcripts'[i].status = "transcribing" ]_vars

\* C28: with no clipboard write from outside, each paste keystroke injects
\* the text of its own paste, and once every paste handled so far has had
\* its restore timer fire (the clipboard having held a text before the first
\* of them), the clipboard holds what it held before the first paste.
C28_OverlappingPastesRestore ==
  externalWrites = 0
  => /\ \A p \in 1..Len(pastes) :
          pastes[p].exec \in {"keyed", "ok"} => pastes[p].pasted = pastes[p].text
     /\ ( /\ pastes # <<>>
          /\ pasteQueue = <<>>
          /\ ~pastes[1].before.other
          /\ \A p \in 1..Len(pastes) : pastes[p].restore = "fired" )
        => clipboard = pastes[1].before

\* C29: a job is started only by a 'recording-finished' event that is
\* accepted, which becomes lastAudio, or by a click on the retry button of an
\* 'error' entry, which submits lastAudio as it is; no step in which a job
\* fails, ends or has its timer fire starts one; and lastAudio is always the
\* latest capture that was accepted.
C29_RetryUsesLastAudio ==
  /\ [][ nJobs' # nJobs =>
           /\ nJobs' = nJobs + 1
           /\ \A j \in 1..nJobs : jobs'[j] = jobs[j]
           /\ pendingLoads' = pendingLoads
           /\ IF nCaptures' # nCaptures
              THEN /\ jobs'[nJobs'].capture = nCaptures'
                   /\ jobs'[nJobs'].duration >= MinDuration
                   /\ lastAudio' = [capture |-> nCaptures',
                                    duration |-> jobs'[nJobs'].duration]
              ELSE /\ \E i \in 1..Len(transcripts) : transcripts[i].status = "error"
                   /\ lastAudio # NoAudio
                   /\ jobs'[nJobs'].capture = lastAudio.capture
                   /\ jobs'[nJobs'].duration = lastAudio.duration
                   /\ lastAudio' = lastAudio ]_vars
  /\ [](\A j \in 1..nJobs : jobs[j].capture <= lastAudio.capture)
  /\ []((lastAudio = NoAudio) <=> (nJobs = 0))

\* the first recording's job has failed and its entry shows the retry
\* button; the second recording's job has not failed; the retry has
\* submitted the second recording
C29_Witness ==
  /\ nJobs = 3
  /\ jobs[1].capture = 1 /\ jobs[1].rphase = "failed"
  /\ jobs[2].capture = 2 /\ jobs[2].rphase # "failed"
  /\ jobs[3].capture = 2 /\ jobs[3].rphase = "invoked"
  /\ \A i \in 1..Len(transcripts) :
       transcripts[i].status = "error" => transcripts[i].id = TempId(1)
  /\ \E i \in 1..Len(transcripts) : transcripts[i].status = "error"

\* C30: whenever the machine is HoldActive, the key set holds a ctrl key
\* and an alt key.
C30_HoldActiveKeys ==
  HotkeyState = "HoldActive"
  => (isCtrlIn(currentHotkey) /\ isAltIn(currentHotkey))

\* a hold recording goes on after the release of one of two ctrl keys, more
\* than 300 ms after its start, with another key held as well
C30_Witness ==
  /\ HotkeyState = "HoldActive"
  /\ currentHotkey = {"RIGHT CTRL", "LEFT ALT", "A"}
  /\ lastEvent.state = "UP"
  /\ now - lastHotkeyPressTime >= ShortPressMs

\* C31: a recording never starts on an event that found ctrl and alt already
\* held: once a continuous recording has been stopped by a DOWN event, which
\* is the only way to be idle with both held, a further DOWN event does not
\* start one until ctrl or alt has been released.
C31_NoRestartWhileHeld ==
  [][ (~isRecording /\ isCtrlIn(currentHotkey) /\ isAltIn(currentHotkey))
        => ~isRecording' ]_vars

\* nothing is left to run for the recordings stopped so far: the renderer's
\* capture hook is quiet, every job has ended, every 'paste-text' message is
\* handled and every hide timer has fired
PipelineQuiet ==
  /\ ~isRecording
  /\ CaptureQuiet
  /\ \A j \in 1..nJobs : jobs[j].rphase \in {"done", "failed"}
  /\ pasteQueue = <<>>
  /\ \A p \in 1..Len(pastes) : pastes[p].hide = "fired"

\* C32: a 'processing' status does not stay on a visible overlay: once
\* nothing is left to run for the recordings stopped so far, the overlay
\* shows 'done' or is hidden.
C32_ProcessingResolved ==
  PipelineQuiet => ~(overlayVisible /\ overlayStatus = "processing")

IsLong(f) == f.duration >= MinDuration

\* C33: a 'recording-finished' event whose duration is under 0.5 s changes
\* nothing but the count of events: no placeholder, no job (so no
\* transcribe-audio, saveTranscript or pasteText call), lastAudio, the
\* table, the paste queue and the overlay as before; an event of 0.5 s or
\* more starts exactly one job, for that capture, and becomes lastAudio.
C33_ShortDiscarded ==
  /\ [][ nCaptures' # nCaptures =>
           /\ Len(finished') = Len(finished) + 1
           /\ nCaptures' = nCaptures + 1
           /\ \A j \in 1..nJobs : jobs'[j] = jobs[j]
           /\ IF finished'[Len(finished')].duration < MinDuration
              THEN UNCHANGED <<lastAudio, transcripts, jobs, nJobs,
                               isTranscribing, db, dbSeq, stats, pendingLoads,
                               pasteQueue, pastes, clipboard, overlayStatus,
                               overlayVisible, overlayLog>>
              ELSE /\ nJobs' = nJobs + 1
                   /\ jobs'[nJobs'].rphase = "invoked"
                   /\ jobs'[nJobs'].capture = nCaptures'
                   /\ jobs'[nJobs'].duration = finished'[Len(finished')].duration
                   /\ lastAudio' = [capture |-> nCaptures',
                                    duration |-> jobs'[nJobs'].duration]
                   /\ Len(transcripts') = Len(transcripts) + 1
                   /\ transcripts'[1].id = TempId(nJobs')
                   /\ transcripts'[1].status = "transcribing" ]_vars
  /\ [](nJobs = Len(SelectSeq(finished, IsLong)))

\* a recording under 0.5 s has been discarded after one of exactly 0.5 s had
\* started its job: lastAudio is still the first capture
C33_Witness ==
  /\ Len(finished) = 2
  /\ finished[1].duration = MinDuration
  /\ finished[2].duration < MinDuration
  /\ nCaptures = 2 /\ nJobs = 1
  /\ lastAudio = [capture |-> 1, duration |-> MinDuration]

\* C34: the key set is the set of keys whose latest event was DOWN, in every
\* hotkey state; and a named key event that leaves the hotkey state and the
\* recording as they were changes nothing but the key set.
C34_KeySetTracksEvents ==
  /\ [](currentHotkey = {k \in Keys : lastEvent.down[k]})
  /\ [][ (KeyStep /\ isRecording' = isRecording /\ isContinuous' = isContinuous)
          => UNCHANGED <<lastHotkeyPressTime, now, mainStatus, overlayStatus,
                         overlayVisible, overlayLog, modeLog, lastCall,
                         recorderVars, jobVars, pasteVars>> ]_vars

\* a hold recording has been upgraded with SPACE and is running with the
\* three keys held; the UP of another key has just been handled and has
\* changed neither the hotkey state nor the three keys
C34_Witness ==
  /\ HotkeyState = "ContinuousActive"
  /\ currentHotkey = {"LEFT CTRL", "LEFT ALT", "SPACE"}
  /\ lastEvent.named /\ lastEvent.state = "UP"
  /\ mainStatus = <<TRUE>>
  /\ modeLog = "upgraded"

\* the handler of job j has been entered and has not returned or thrown
InFlight(j) == jobs[j].mphase \in {"awaitAll", "awaitTranscription", "awaitRewrite"}

\* C35: two jobs whose handlers are in flight at the same time have
\* different temporary file paths, and different archive file paths when
\* both archive.
C35_DistinctFiles ==
  \A i \in Jobs, j \in Jobs :
    (i # j /\ InFlight(i) /\ InFlight(j))
    => /\ jobs[i].tempPath # jobs[j].tempPath
       /\ (jobs[i].permanentPath # NoPath /\ jobs[j].permanentPath # NoPath)
            => jobs[i].permanentPath # jobs[j].permanentPath

\* the stored row with this id, if any
StoredWith(id) == {i \in 1..Len(db) : db[i].id = id}

\* C36: a request for atom://audio/<id>, for the id of a stored row that has
\* an audio_path whose file exists, is answered with that file, however many
\* rows are stored; 400 is answered only when the path does not start with a
\* number, and 404 only when no row has the id, or its audio_path is null,
\* or the file is missing.
C36_AudioServed ==
  LET r == atomResponse
      id == ParseInt(StripSlash(r.pathname))
  IN r # NoResponse =>
       /\ \A i \in 1..Len(db) :
            (r.pathname = <<"/">> \o ToDecimal(db[i].id)
               /\ db[i].audio_path # 0 /\ db[i].audio_path \in audioFiles)
            => (r.status = 200 /\ r.file = db[i].audio_path)
       /\ r.status = 400 => (r.pathname = <<"/">> \/ ~IsDigit(r.pathname[2]))
       /\ r.status = 404 =>
            \/ StoredWith(id.value) = {}
            \/ \E i \in StoredWith(id.value) :
                 db[i].audio_path = 0 \/ db[i].audio_path \notin audioFiles

\* C37: the list of the main window never holds two entries with the same
\* id.
C37_NoDuplicateIds ==
  \A i \in 1..Len(transcripts), k \in 1..Len(transcripts) :
    i # k => transcripts[i].id # transcripts[k].id

====
